---- MODULE Spec2Model ----
(***************************************************************************)
(* xdr-serde: the XDR (RFC 4506) serializer and deserializers bridged to   *)
(* the serde data model.                                                   *)
(*                                                                         *)
(* The module is an abstract machine of the crate.  One action stands for  *)
(* one method of the Serializer / Deserializer / ReaderDeserializer (and   *)
(* of their accessors), the pending calls of the serde driver are kept on  *)
(* a stack, and the entry points to_bytes, to_writer, from_bytes,          *)
(* from_bytes_partial and from_reader are a call and a return action each. *)
(*                                                                         *)
(* Numbers.  TLC's integers are 32-bit signed, so                          *)
(*   i8, i16, i32, u8, u16, char, usize  are plain integers,               *)
(*   u32  is the pair <<hi, lo>> of its 16-bit halves (hi*2^16 + lo),      *)
(*   u64  is the 4-tuple of its 16-bit limbs, most significant first,      *)
(*   i64  is <<hi, lo>> with hi an i32 and lo a u32 (hi*2^32 + lo),        *)
(*   a usize the decoders compute with is a pair like a u32, and a length  *)
(*   declared to the serializer is a 4-tuple like a u64.                   *)
(* A byte string is a sequence over 0..255; a String is the sequence of    *)
(* its UTF-8 bytes.                                                        *)
(***************************************************************************)
EXTENDS Integers, Sequences, FiniteSets, TLC

VARIABLES
    ty,       \* the type T of the value the caller encodes
    val,      \* the value passed to to_bytes / to_writer
    pc,       \* the entry point that is executing, or the caller's position
    ser,      \* the Serializer: [writer |-> bytes held by the sink]
    todo,     \* pending `value.serialize(serializer)` calls, next first
    pads,     \* history: positions of ser.writer that are padding positions
    de,       \* the Deserializer [input, pos] or ReaderDeserializer [reader]
    stack,    \* pending deserialize calls and the visitors waiting for them
    ret,      \* the Result travelling back to the entry point
    res,      \* the Result of each entry point that has returned
    sink0,    \* what the sink given to to_writer held before the call
    other,    \* the second value the caller encodes, <<[t, v]>>, or <<>>
    tail,     \* the bytes the caller put after to_bytes(val) before decoding
    wire,     \* bytes the caller made of to_bytes(val) that need not be an
              \* encoding: the input of from_bytes, the source of from_reader
    fault     \* how the sink given to to_writer fails: None, or Some of the
              \* write it fails, the bytes of it it accepts and its error

vars == <<ty, val, pc, ser, todo, pads, de, stack, ret, res, sink0, other, tail, wire, fault>>

(***************************************************************************)
(* Bounds of the model.                                                    *)
(***************************************************************************)
MaxLen == 5     \* longest string, byte buffer and fixed opaque that is drawn
MaxSeq == 2     \* longest sequence and map that is drawn
MaxAccept == 2  \* most bytes a failing sink accepts of the write it fails
MaxUnits == 3   \* largest count the caller puts in front of a Vec<()> it decodes

(***************************************************************************)
(* Results and errors (error.rs).                                          *)
(***************************************************************************)
Ok(v)  == <<"Ok", v>>
Err(e) == <<"Err", e>>
IsOk(r)  == r[1] = "Ok"
IsErr(r) == r[1] = "Err"
Pending == <<"Pending">>
Unit == "()"
\* An Error is the tuple of its variant's name and fields: <<"UnexpectedEof">>,
\* <<"InvalidBool", w>>, <<"LengthOverflow", max, got>>, <<"Message", text>>.

(***************************************************************************)
(* Fixed-width integers and their big-endian images.                       *)
(***************************************************************************)
U32(n) == <<n \div 65536, n % 65536>>          \* a u32 literal, 0 <= n < 2^31
U32_MAX == <<65535, 65535>>

usize_as_u32(n) == <<(n \div 65536) % 65536, n % 65536>>

\* Variant: least significant byte first.
u32_to_le_bytes(w) == <<w[2] % 256, w[2] \div 256, w[1] % 256, w[1] \div 256>>
u32_to_be_bytes(w) == <<w[1] \div 256, w[1] % 256, w[2] \div 256, w[2] % 256>>
\* The u32 with the bits of an i32 (two's complement).
i32_as_u32(v) == <<(v \div 65536) % 65536, v % 65536>>

(***************************************************************************)
(* Serializer: the write helpers (ser.rs 73-116).  A helper takes the      *)
(* sink's bytes and returns [w |-> the sink afterwards, r |-> Result<()>]; *)
(* `?` is the early return on r being an Err.                              *)
(*                                                                         *)
(* The sink is a Vec<u8>, which accepts every write, or a sink that fails  *)
(* once: fault = Some([at, accept, msg]) is the sink whose write_all of    *)
(* the bytes that begin `at` bytes after sink0 accepts `accept` of them    *)
(* (fewer than all: Write::write_all returns an error only with bytes left *)
(* to write) and returns an io::Error that displays as msg.  An empty      *)
(* write_all never reaches the sink.                                       *)
(***************************************************************************)
\* Variant: the sink's error is dropped.
write_all_infallible(w, bytes) ==
    IF fault # <<>> /\ bytes # <<>> /\ Len(w) = Len(sink0) + fault[1].at
    THEN LET k == IF fault[1].accept < Len(bytes) THEN fault[1].accept ELSE Len(bytes) - 1
         IN  [w |-> w \o SubSeq(bytes, 1, k), r |-> Ok(Unit)]
    ELSE [w |-> w \o bytes, r |-> Ok(Unit)]

write_all(w, bytes) ==
    IF fault # <<>> /\ bytes # <<>> /\ Len(w) = Len(sink0) + fault[1].at
    THEN LET k == IF fault[1].accept < Len(bytes) THEN fault[1].accept ELSE Len(bytes) - 1
         IN  [w |-> w \o SubSeq(bytes, 1, k), r |-> Err(<<"Io", fault[1].msg>>)]
    ELSE [w |-> w \o bytes, r |-> Ok(Unit)]

write_u32(w, v) == write_all(w, u32_to_be_bytes(v))
write_i32(w, v) == write_all(w, u32_to_be_bytes(i32_as_u32(v)))
write_u64(w, v) ==
    write_all(w, u32_to_be_bytes(<<v[1], v[2]>>) \o u32_to_be_bytes(<<v[3], v[4]>>))
write_i64(w, v) ==
    write_all(w, u32_to_be_bytes(i32_as_u32(v[1])) \o u32_to_be_bytes(v[2]))

\* Variant: the data bytes without their padding.
write_unpadded_bytes(w, bytes) == write_all(w, bytes)
\* Variant: padding that repeats the last data byte.
write_dirty_padded_bytes(w, bytes) ==
    LET o1 == write_all(w, bytes)
        remainder == Len(bytes) % 4
        pad == [i \in 1..3 |-> bytes[Len(bytes)]]
    IN  IF remainder # 0 THEN write_all(o1.w, SubSeq(pad, 1, 4 - remainder))
        ELSE [w |-> o1.w, r |-> Ok(Unit)]
\* Variant: padding up to a 4-byte boundary of the sink instead of the data.
write_stream_padded_bytes(w, bytes) ==
    LET o1 == write_all(w, bytes)
        remainder == Len(o1.w) % 4
        pad == <<0, 0, 0>>
    IN  IF remainder # 0 THEN write_all(o1.w, SubSeq(pad, 1, 4 - remainder))
        ELSE [w |-> o1.w, r |-> Ok(Unit)]

write_padded_bytes(w, bytes) ==
    LET o1 == write_all(w, bytes)
        remainder == Len(bytes) % 4
        pad == <<0, 0, 0>>
    IN  IF IsErr(o1.r) THEN o1
        ELSE IF remainder # 0 THEN write_all(o1.w, SubSeq(pad, 1, 4 - remainder))
        ELSE [w |-> o1.w, r |-> Ok(Unit)]

\* Variant: the count written is the padded length.
write_opaque_variable_padded_count(w, bytes) ==
    LET n == Len(bytes)
        o1 == write_u32(w, usize_as_u32(n + ((4 - (n % 4)) % 4)))
    IN  write_padded_bytes(o1.w, bytes)

\* bytes.len(), a usize of 64 bits as the 4-tuple of its 16-bit limbs.  A
\* slice too long to be held as a sequence is given as <<-1>>, the four limbs
\* of its length and the byte that fills it.
slice_len(bytes) ==
    IF bytes # <<>> /\ bytes[1] = -1 THEN SubSeq(bytes, 2, 5)
    ELSE <<0, 0, Len(bytes) \div 65536, Len(bytes) % 65536>>

\* Variant: the length is checked after its low 32 bits are written.
write_opaque_variable_late_check(w, bytes) ==
    LET n == slice_len(bytes)
        o1 == write_u32(w, <<n[3], n[4]>>)
    IN  IF IsErr(o1.r) THEN o1
        ELSE IF n[1] > 0 \/ n[2] > 0
             THEN [w |-> o1.w, r |-> Err(<<"LengthOverflow", U32_MAX, U32_MAX>>)]
        ELSE write_padded_bytes(o1.w, bytes)

\* `bytes.len() > u32::MAX as usize`; `bytes.len() as u32` is then the two low
\* limbs.
write_opaque_variable(w, bytes) ==
    LET n == slice_len(bytes)
    IN  IF n[1] > 0 \/ n[2] > 0
        THEN [w |-> w, r |-> Err(<<"LengthOverflow", U32_MAX, U32_MAX>>)]
        ELSE LET o1 == write_u32(w, <<n[3], n[4]>>)
             IN  IF IsErr(o1.r) THEN o1 ELSE write_padded_bytes(o1.w, bytes)

(***************************************************************************)
(* The serde data model: type descriptors and host values.                 *)
(*   Option<T>   None = <<>>, Some(v) = <<v>>                              *)
(*   Vec<T>      a sequence                                                *)
(*   BTreeMap    a function from its keys (integers)                       *)
(*   tuple, tuple struct, struct: the sequence of the fields               *)
(*   enum        <<variant_index, the sequence of the arm's fields>>       *)
(*   newtype struct: the inner value                                       *)
(*   [u8; N] with #[serde(with = "xdr_serde::fixed_opaque")]: N bytes      *)
(***************************************************************************)
T(k) == [k |-> k]                  \* bool, i8 .. u64, char, string, byte_buf, unit;
                                   \* any: a type whose Deserialize impl calls
                                   \* deserialize_any (an untagged enum);
                                   \* ignored_any: serde::de::IgnoredAny
TOf(k, t) == [k |-> k, t |-> t]    \* option, seq; seq_unsized: a sequence whose
                                   \* Serialize impl calls serialize_seq(None)
TMap(kt, vt) == [k |-> "map", kt |-> kt, vt |-> vt]
\* the same with k = "map_unsized": a map whose Serialize impl calls
\* serialize_map(None)
TFields(k, name, ts) == [k |-> k, name |-> name, ts |-> ts]  \* tuple, tuple_struct, unit_struct
TNewtypeStruct(name, t) == [k |-> "newtype_struct", name |-> name, t |-> t]
TStruct(name, fields, ts) == [k |-> "struct", name |-> name, fields |-> fields, ts |-> ts]
TEnum(name, variants) == [k |-> "enum", name |-> name, variants |-> variants]
TFixedOpaque(n) == [k |-> "fixed_opaque", n |-> n]
\* an arm of an enum: k is unit, newtype, tuple or struct
Arm(name, k, fields, ts) == [name |-> name, k |-> k, fields |-> fields, ts |-> ts]

None == <<>>
Some(v) == <<v>>

\* The reserved newtype name of the fixed-opaque override (crate::FIXED_OPAQUE_TOKEN).
FIXED_OPAQUE_TOKEN == "crate::FIXED_OPAQUE_TOKEN"

RECURSIVE SortedSeq(_)
SortedSeq(S) ==
    IF S = {} THEN <<>>
    ELSE LET m == CHOOSE x \in S : \A y \in S : x <= y
         IN  <<m>> \o SortedSeq(S \ {m})

(***************************************************************************)
(* The serializer's pending calls.  A task [t, v, via] is the call         *)
(* `v.serialize(s)` of a value v of type t, where s is the Serializer      *)
(* (via = "ser") or the FixedOpaqueSerializer wrapped around it            *)
(* (via = "fixed").                                                        *)
(***************************************************************************)
Task(t, v, via) == [t |-> t, v |-> v, via |-> via]
\* the fields of a struct or tuple in order; the elements of a sequence
FieldTasks(ts, vs) == [i \in 1..Len(vs) |-> Task(ts[i], vs[i], "ser")]
EntryTasks(kt, vt, m) ==
    LET keys == SortedSeq(DOMAIN m)
    IN  [i \in 1..(2 * Len(keys)) |->
            IF i % 2 = 1 THEN Task(kt, keys[(i + 1) \div 2], "ser")
            ELSE Task(vt, m[keys[i \div 2]], "ser")]

\* The positions of the padding region that follows n data bytes which start
\* after position `before` of the output.
PadRegion(before, n) == {before + n + i : i \in 1..((4 - (n % 4)) % 4)}

Serializer_new(writer) == [writer |-> writer]
into_writer(s) == s.writer

SerHead(kinds) ==
    /\ pc \in {"to_bytes", "to_bytes_other", "to_writer"}
    /\ todo # <<>> /\ todo[1].t.k \in kinds

\* What every Serializer method leaves behind: the sink as written, and either
\* the error returned through every `?` up to the entry point, or the calls
\* `sub` the method made on nested values.
SerStep(o, sub, newpads) ==
    /\ ser' = [ser EXCEPT !.writer = o.w]
    /\ IF IsErr(o.r)
       THEN todo' = <<>> /\ ret' = o.r /\ pads' = pads
       ELSE todo' = sub \o Tail(todo) /\ ret' = ret /\ pads' = pads \cup newpads
    /\ UNCHANGED <<ty, val, pc, res, de, stack, sink0, other, tail, wire, fault>>

NoWrite == [w |-> ser.writer, r |-> Ok(Unit)]

serialize_bool == SerHead({"bool"}) /\ SerStep(write_u32(ser.writer, IF todo[1].v THEN U32(1) ELSE U32(0)), <<>>, {})
serialize_i8   == SerHead({"i8"})   /\ SerStep(write_i32(ser.writer, todo[1].v), <<>>, {})
serialize_i16  == SerHead({"i16"})  /\ SerStep(write_i32(ser.writer, todo[1].v), <<>>, {})
serialize_i32  == SerHead({"i32"})  /\ SerStep(write_i32(ser.writer, todo[1].v), <<>>, {})
serialize_i64  == SerHead({"i64"})  /\ SerStep(write_i64(ser.writer, todo[1].v), <<>>, {})
serialize_u8   == SerHead({"u8"})   /\ SerStep(write_u32(ser.writer, <<0, todo[1].v>>), <<>>, {})
serialize_u16  == SerHead({"u16"})  /\ SerStep(write_u32(ser.writer, <<0, todo[1].v>>), <<>>, {})
serialize_u32  == SerHead({"u32"})  /\ SerStep(write_u32(ser.writer, todo[1].v), <<>>, {})
serialize_u64  == SerHead({"u64"})  /\ SerStep(write_u64(ser.writer, todo[1].v), <<>>, {})
serialize_char == SerHead({"char"}) /\ SerStep(write_u32(ser.writer, U32(todo[1].v)), <<>>, {})

serialize_str ==
    /\ SerHead({"string"})
    /\ SerStep(write_opaque_variable(ser.writer, todo[1].v), <<>>,
               PadRegion(Len(ser.writer) + 4, Len(todo[1].v)))

serialize_bytes ==
    /\ SerHead({"byte_buf", "helper"})
    /\ todo[1].via = "ser"
    /\ SerStep(write_opaque_variable(ser.writer, todo[1].v), <<>>,
               PadRegion(Len(ser.writer) + 4, Len(todo[1].v)))

FixedOpaqueSerializer_serialize_bytes ==
    /\ SerHead({"byte_buf", "helper"})
    /\ todo[1].via = "fixed"
    /\ SerStep(write_padded_bytes(ser.writer, todo[1].v), <<>>,
               PadRegion(Len(ser.writer), Len(todo[1].v)))

serialize_none ==
    /\ SerHead({"option"})
    /\ todo[1].v = None
    /\ SerStep(write_u32(ser.writer, U32(0)), <<>>, {})

serialize_some ==
    /\ SerHead({"option"})
    /\ todo[1].v # None
    /\ SerStep(write_u32(ser.writer, U32(1)), <<Task(todo[1].t.t, todo[1].v[1], "ser")>>, {})

serialize_unit == SerHead({"unit"}) /\ SerStep(NoWrite, <<>>, {})
serialize_unit_struct == SerHead({"unit_struct"}) /\ SerStep(NoWrite, <<>>, {})

\* Variant: the reserved name is not recognised.
serialize_newtype_struct_any_name ==
    /\ SerHead({"newtype_struct", "fixed_opaque"})
    /\ SerStep(NoWrite,
               <<Task(IF todo[1].t.k = "fixed_opaque" THEN T("helper") ELSE todo[1].t.t,
                         todo[1].v, "ser")>>, {})

\* The newtype call a value makes: a derived newtype struct passes its own name
\* and field; fixed_opaque::serialize passes the token and a FixedOpaqueHelper.
NewtypeCall(task) ==
    IF task.t.k = "fixed_opaque"
    THEN [name |-> FIXED_OPAQUE_TOKEN, t |-> T("helper"), v |-> task.v]
    ELSE [name |-> task.t.name, t |-> task.t.t, v |-> task.v]

serialize_newtype_struct ==
    /\ SerHead({"newtype_struct", "fixed_opaque"})
    /\ LET c == NewtypeCall(todo[1])
       IN  IF c.name = FIXED_OPAQUE_TOKEN
           THEN SerStep(NoWrite, <<Task(c.t, c.v, "fixed")>>, {})
           ELSE SerStep(NoWrite, <<Task(c.t, c.v, "ser")>>, {})

Variant(task) == task.t.variants[task.v[1] + 1]
SerVariant(kind) == SerHead({"enum"}) /\ Variant(todo[1]).k = kind

serialize_unit_variant ==
    /\ SerVariant("unit")
    /\ SerStep(write_u32(ser.writer, U32(todo[1].v[1])), <<>>, {})

serialize_newtype_variant ==
    /\ SerVariant("newtype")
    /\ SerStep(write_u32(ser.writer, U32(todo[1].v[1])),
               <<Task(Variant(todo[1]).ts[1], todo[1].v[2][1], "ser")>>, {})

serialize_tuple_variant ==
    /\ SerVariant("tuple")
    /\ SerStep(write_u32(ser.writer, U32(todo[1].v[1])),
               FieldTasks(Variant(todo[1]).ts, todo[1].v[2]), {})

\* Variant: the number of fields follows the variant index.
serialize_struct_variant_counted ==
    /\ SerVariant("struct")
    /\ SerStep(write_u32(write_u32(ser.writer, U32(todo[1].v[1])).w,
                         U32(Len(Variant(todo[1]).ts))),
               FieldTasks(Variant(todo[1]).ts, todo[1].v[2]), {})

serialize_struct_variant ==
    /\ SerVariant("struct")
    /\ SerStep(write_u32(ser.writer, U32(todo[1].v[1])),
               FieldTasks(Variant(todo[1]).ts, todo[1].v[2]), {})

\* The length a sequence or map declares to serialize_seq / serialize_map:
\* Vec and BTreeMap pass Some(len()), an iterator of unknown length None.
\* The length is a usize of 64 bits, here the 4-tuple of its 16-bit limbs, most
\* significant first.  A Vec<()> (k = "seq_unit") is given by its length alone:
\* its elements take no memory, and it may hold more than 2^32 - 1 of them.
DeclaredLen(task) ==
    IF task.t.k \in {"seq_unsized", "map_unsized"} THEN None
    ELSE IF task.t.k = "seq_unit" THEN Some(task.v)
    ELSE LET n == IF task.t.k = "map" THEN Cardinality(DOMAIN task.v) ELSE Len(task.v)
         IN  Some(<<0, 0, n \div 65536, n % 65536>>)

\* Variant: an unknown length is written as a count of 0.
WriteLen_unknown_as_zero(len) ==
    IF len = None THEN write_u32(ser.writer, U32(0))
    ELSE write_u32(ser.writer, <<len[1][3], len[1][4]>>)

\* `l as u32` keeps the low 32 bits of l.
WriteLen(len) ==
    IF len = None THEN [w |-> ser.writer, r |-> Err(<<"LengthRequired">>)]
    ELSE write_u32(ser.writer, <<len[1][3], len[1][4]>>)

\* The elements of a Vec<()> are serialized by serialize_unit, which writes
\* nothing and returns Ok(()): the model leaves these calls out.
serialize_seq ==
    /\ SerHead({"seq", "seq_unsized", "seq_unit"})
    /\ SerStep(WriteLen(DeclaredLen(todo[1])),
               IF todo[1].t.k = "seq_unit" THEN <<>>
               ELSE FieldTasks([i \in DOMAIN todo[1].v |-> todo[1].t.t], todo[1].v), {})

serialize_map ==
    /\ SerHead({"map", "map_unsized"})
    /\ SerStep(WriteLen(DeclaredLen(todo[1])),
               EntryTasks(todo[1].t.kt, todo[1].t.vt, todo[1].v), {})

serialize_tuple ==
    SerHead({"tuple"}) /\ SerStep(NoWrite, FieldTasks(todo[1].t.ts, todo[1].v), {})
serialize_tuple_struct ==
    SerHead({"tuple_struct"}) /\ SerStep(NoWrite, FieldTasks(todo[1].t.ts, todo[1].v), {})
\* Variant: the number of fields is written first, as for a sequence.
serialize_struct_counted ==
    /\ SerHead({"struct"})
    /\ SerStep(write_u32(ser.writer, U32(Len(todo[1].t.ts))),
               FieldTasks(todo[1].t.ts, todo[1].v), {})
serialize_struct ==
    SerHead({"struct"}) /\ SerStep(NoWrite, FieldTasks(todo[1].t.ts, todo[1].v), {})

(***************************************************************************)
(* Reading fixed-width integers, and the narrowing casts of the decoders.  *)
(***************************************************************************)
u32_from_be_bytes(b) == <<b[1] * 256 + b[2], b[3] * 256 + b[4]>>
i32_from_be_bytes(b) ==
    LET hi == b[1] * 256 + b[2]
    IN  (IF hi >= 32768 THEN hi - 65536 ELSE hi) * 65536 + (b[3] * 256 + b[4])

\* Variant: the low byte without its sign.
i32_as_u8(v)  == v % 256
i32_as_i8(v)  == LET m == v % 256 IN IF m >= 128 THEN m - 256 ELSE m
i32_as_i16(v) == LET m == v % 65536 IN IF m >= 32768 THEN m - 65536 ELSE m
\* Variant: a word above the range saturates to u8::MAX.
u32_as_u8_saturating(w) == IF w[1] > 0 \/ w[2] > 255 THEN 255 ELSE w[2]
u32_as_u8(w)  == w[2] % 256
u32_as_u16(w) == w[2]
\* A usize the decoders compute with is the pair <<hi, lo>> of hi * 2^16 + lo,
\* as a u32 is: every count read from the wire fits, whatever its high bits.
USize(n) == <<n \div 65536, n % 65536>>
\* `as usize` (a 64-bit target): zero extension, both halves kept.
u32_as_usize(w) == <<w[1], w[2]>>
\* `self.remaining -= 1` of a non-zero usize
usize_dec(n) == IF n[2] > 0 THEN <<n[1], n[2] - 1>> ELSE <<n[1] - 1, 65535>>

\* Variant: the surrogates are taken for scalars.
char_from_u32_with_surrogates(w) ==
    IF w[1] > 16 THEN None ELSE Some(w[1] * 65536 + w[2])

\* char::from_u32: None for a surrogate or a value above 0x10FFFF.
char_from_u32(w) ==
    IF w[1] > 16 \/ (w[1] = 0 /\ w[2] >= 55296 /\ w[2] <= 57343)
    THEN None
    ELSE Some(w[1] * 65536 + w[2])

\* String::from_utf8 / str::from_utf8: the well-formed UTF-8 byte sequences.
RECURSIVE IsUtf8(_)
IsUtf8(b) ==
    IF b = <<>> THEN TRUE
    ELSE LET n == Len(b)
             c == b[1]
             Cont(x) == x >= 128 /\ x <= 191
         IN  IF c <= 127 THEN IsUtf8(Tail(b))
             ELSE IF c >= 194 /\ c <= 223
                  THEN n >= 2 /\ Cont(b[2]) /\ IsUtf8(SubSeq(b, 3, n))
             ELSE IF c >= 224 /\ c <= 239
                  THEN /\ n >= 3
                       /\ Cont(b[2]) /\ Cont(b[3])
                       /\ (c = 224 => b[2] >= 160)
                       /\ (c = 237 => b[2] <= 159)
                       /\ IsUtf8(SubSeq(b, 4, n))
             ELSE IF c >= 240 /\ c <= 244
                  THEN /\ n >= 4
                       /\ Cont(b[2]) /\ Cont(b[3]) /\ Cont(b[4])
                       /\ (c = 240 => b[2] >= 144)
                       /\ (c = 244 => b[2] <= 143)
                       /\ IsUtf8(SubSeq(b, 5, n))
             ELSE FALSE
from_utf8(b) == IF IsUtf8(b) THEN Ok(b) ELSE Err(<<"InvalidString">>)

(***************************************************************************)
(* Deserializer (slice): de.rs 57-117.  A helper takes the deserializer    *)
(* and returns [d |-> the deserializer afterwards, r |-> the Result].      *)
(***************************************************************************)
Deserializer_new(input) == [kind |-> "slice", input |-> input, pos |-> 0]

\* Variant: the whole input.
whole_input(d) == d.input
remaining(d) == SubSeq(d.input, d.pos + 1, Len(d.input))

\* Variant: `>=` for `>`, the last n bytes of the input cannot be taken.
take_off_by_one(d, n) ==
    LET left == USize(Len(d.input) - d.pos)
    IN  IF n[1] > left[1] \/ (n[1] = left[1] /\ n[2] >= left[2])
        THEN [d |-> d, r |-> Err(<<"UnexpectedEof">>)]
        ELSE [d |-> [d EXCEPT !.pos = @ + n[2]],
              r |-> Ok(SubSeq(d.input, d.pos + 1, d.pos + n[2]))]

\* Variant: the cursor is advanced before the bound is checked.
take_advancing_first(d, n) ==
    LET left == USize(Len(d.input) - d.pos)
    IN  IF n[1] > left[1] \/ (n[1] = left[1] /\ n[2] > left[2])
        THEN [d |-> [d EXCEPT !.pos = @ + n[2]], r |-> Err(<<"UnexpectedEof">>)]
        ELSE [d |-> [d EXCEPT !.pos = @ + n[2]],
              r |-> Ok(SubSeq(d.input, d.pos + 1, d.pos + n[2]))]

\* `self.pos + n > self.input.len()`, written as n > len - pos on the halves
\* of n (pos <= len always).
take(d, n) ==
    LET left == USize(Len(d.input) - d.pos)
    IN  IF n[1] > left[1] \/ (n[1] = left[1] /\ n[2] > left[2])
        THEN [d |-> d, r |-> Err(<<"UnexpectedEof">>)]
        ELSE [d |-> [d EXCEPT !.pos = @ + n[2]],
              r |-> Ok(SubSeq(d.input, d.pos + 1, d.pos + n[2]))]

read_u32(d) ==
    LET o == take(d, USize(4))
    IN  IF IsErr(o.r) THEN o ELSE [d |-> o.d, r |-> Ok(u32_from_be_bytes(o.r[2]))]
read_i32(d) ==
    LET o == take(d, USize(4))
    IN  IF IsErr(o.r) THEN o ELSE [d |-> o.d, r |-> Ok(i32_from_be_bytes(o.r[2]))]
read_u64(d) ==
    LET o == take(d, USize(8))
    IN  IF IsErr(o.r) THEN o ELSE [d |-> o.d,
               r |-> Ok(u32_from_be_bytes(SubSeq(o.r[2], 1, 4)) \o u32_from_be_bytes(SubSeq(o.r[2], 5, 8)))]
read_i64(d) ==
    LET o == take(d, USize(8))
    IN  IF IsErr(o.r) THEN o ELSE [d |-> o.d,
               r |-> Ok(<<i32_from_be_bytes(SubSeq(o.r[2], 1, 4)), u32_from_be_bytes(SubSeq(o.r[2], 5, 8))>>)]

\* Variant: the data bytes only, the padding left unread.
read_unpadded_bytes(d, n) == take(d, n)
\* Variant: padding that is not zero is refused.
read_zero_padded_bytes(d, n) ==
    LET o == take(d, n)
        remainder == n[2] % 4
    IN  IF IsErr(o.r) THEN o
        ELSE IF remainder # 0
             THEN LET p == take(o.d, USize(4 - remainder))
                  IN  IF IsErr(p.r) THEN p
                      ELSE IF \E i \in DOMAIN p.r[2] : p.r[2][i] # 0
                           THEN [d |-> p.d, r |-> Err(<<"InvalidPadding">>)]
                      ELSE [d |-> p.d, r |-> o.r]
             ELSE o
read_padded_bytes(d, n) ==
    LET o == take(d, n)
        remainder == n[2] % 4       \* n % 4: 2^16 is a multiple of 4
    IN  IF IsErr(o.r) THEN o
        ELSE IF remainder # 0
             THEN LET p == take(o.d, USize(4 - remainder))
                  IN  IF IsErr(p.r) THEN p ELSE [d |-> p.d, r |-> o.r]
             ELSE o

read_variable_opaque(d) ==
    LET o == read_u32(d)
    IN  IF IsErr(o.r) THEN o ELSE read_padded_bytes(o.d, u32_as_usize(o.r[2]))

(***************************************************************************)
(* ReaderDeserializer: de.rs 523-581.  The reader is [data, off]: the      *)
(* bytes of the source and how many of them have been read.  read_exact on *)
(* a source that ends early reads what is left and fails.                  *)
(***************************************************************************)
ReaderDeserializer_new(reader) == [kind |-> "reader", reader |-> reader]

\* Variant: the kind of the io::Error is not looked at, a short read is an Io.
read_exact_buf_eof_as_io(d, n) ==
    LET left == USize(Len(d.reader.data) - d.reader.off)
    IN  IF n[1] > left[1] \/ (n[1] = left[1] /\ n[2] > left[2])
        THEN [d |-> [d EXCEPT !.reader.off = Len(d.reader.data)],
              r |-> Err(<<"Io", "failed to fill whole buffer">>)]
        ELSE [d |-> [d EXCEPT !.reader.off = @ + n[2]],
              r |-> Ok(SubSeq(d.reader.data, d.reader.off + 1, d.reader.off + n[2]))]

read_exact_buf(d, n) ==
    LET left == USize(Len(d.reader.data) - d.reader.off)
    IN  IF n[1] > left[1] \/ (n[1] = left[1] /\ n[2] > left[2])
        THEN [d |-> [d EXCEPT !.reader.off = Len(d.reader.data)],
              r |-> Err(<<"UnexpectedEof">>)]
        ELSE [d |-> [d EXCEPT !.reader.off = @ + n[2]],
              r |-> Ok(SubSeq(d.reader.data, d.reader.off + 1, d.reader.off + n[2]))]

Reader_read_u32(d) ==
    LET o == read_exact_buf(d, USize(4))
    IN  IF IsErr(o.r) THEN o ELSE [d |-> o.d, r |-> Ok(u32_from_be_bytes(o.r[2]))]
Reader_read_i32(d) ==
    LET o == read_exact_buf(d, USize(4))
    IN  IF IsErr(o.r) THEN o ELSE [d |-> o.d, r |-> Ok(i32_from_be_bytes(o.r[2]))]
Reader_read_u64(d) ==
    LET o == read_exact_buf(d, USize(8))
    IN  IF IsErr(o.r) THEN o ELSE [d |-> o.d,
               r |-> Ok(u32_from_be_bytes(SubSeq(o.r[2], 1, 4)) \o u32_from_be_bytes(SubSeq(o.r[2], 5, 8)))]
Reader_read_i64(d) ==
    LET o == read_exact_buf(d, USize(8))
    IN  IF IsErr(o.r) THEN o ELSE [d |-> o.d,
               r |-> Ok(<<i32_from_be_bytes(SubSeq(o.r[2], 1, 4)), u32_from_be_bytes(SubSeq(o.r[2], 5, 8))>>)]

\* Variant: the data bytes only, the padding left unread.
Reader_read_unpadded_bytes(d, n) == read_exact_buf(d, n)
\* Variant: a whole word is read after data that needs padding.
Reader_read_word_padded_bytes(d, n) ==
    LET o == read_exact_buf(d, n)
        remainder == n[2] % 4
    IN  IF IsErr(o.r) THEN o
        ELSE IF remainder # 0
             THEN LET p == read_exact_buf(o.d, USize(4))
                  IN  IF IsErr(p.r) THEN p ELSE [d |-> p.d, r |-> o.r]
             ELSE o
Reader_read_padded_bytes(d, n) ==
    LET o == read_exact_buf(d, n)
        remainder == n[2] % 4
    IN  IF IsErr(o.r) THEN o
        ELSE IF remainder # 0
             THEN LET p == read_exact_buf(o.d, USize(4 - remainder))
                  IN  IF IsErr(p.r) THEN p ELSE [d |-> p.d, r |-> o.r]
             ELSE o

Reader_read_variable_opaque(d) ==
    LET o == Reader_read_u32(d)
    IN  IF IsErr(o.r) THEN o ELSE Reader_read_padded_bytes(o.d, u32_as_usize(o.r[2]))

\* The two bridges (de.rs 119-263 and 583-724) are the same text over their own
\* helpers: a method of the bridge calls the helper f of its deserializer.
Read(d, f, n) ==
    IF d.kind = "slice"
    THEN CASE f = "u32" -> read_u32(d)
           [] f = "i32" -> read_i32(d)
           [] f = "u64" -> read_u64(d)
           [] f = "i64" -> read_i64(d)
           [] f = "padded_bytes" -> read_padded_bytes(d, n)
           [] f = "variable_opaque" -> read_variable_opaque(d)
    ELSE CASE f = "u32" -> Reader_read_u32(d)
           [] f = "i32" -> Reader_read_i32(d)
           [] f = "u64" -> Reader_read_u64(d)
           [] f = "i64" -> Reader_read_i64(d)
           [] f = "padded_bytes" -> Reader_read_padded_bytes(d, n)
           [] f = "variable_opaque" -> Reader_read_variable_opaque(d)

(***************************************************************************)
(* The deserializers' stack.  Its frames are                               *)
(*   Call(t, via)   the pending call T::deserialize(d), where d is the     *)
(*                  deserializer itself (via = "de") or the FixedOpaque*De *)
(*                  wrapped around it (via = "fixed");                     *)
(*   VisitSeq       a visitor inside visit_seq, holding its SeqAccess:     *)
(*                  Vec's visitor asks for elements until None, the        *)
(*                  visitors of tuples, arrays and structs ask for exactly *)
(*                  their fields;                                          *)
(*   VisitMap       BTreeMap's visitor inside visit_map;                   *)
(*   Visitor, VisitVariant: a visitor waiting for the one                  *)
(*                  value it wraps;                                        *)
(*   EnumAccess, VariantAccess: a derived enum visitor inside visit_enum.  *)
(***************************************************************************)
Call(t, via) == [f |-> "deserialize", t |-> t, via |-> via]
SliceSeqAccess_new(count) == [a |-> "seq", remaining |-> count]
RawByteSeqAccess(data) == [a |-> "raw", data |-> data, pos |-> 0]
VisitSeq(access, vis, ts) ==
    [f |-> "visit_seq", access |-> access, vis |-> vis, ts |-> ts, acc |-> <<>>]
\* access is SliceMapAccess::new(de, count)
VisitMap(count, kt, vt) ==
    [f |-> "visit_map", access |-> [remaining |-> count], kt |-> kt, vt |-> vt,
     acc |-> <<>>, key |-> None]
\* f is visit_some or visit_newtype_struct
Visitor(f) == [f |-> f]
VisitVariant(idx, kind) == [f |-> "visit_variant", idx |-> idx, kind |-> kind]
EnumAccess(t) == [f |-> "enum_access", t |-> t]
VariantAccess(t, idx) == [f |-> "variant_access", t |-> t, idx |-> idx]

\* BTreeMap::insert
Insert(m, key, v) == [x \in (DOMAIN m) \cup {key} |-> IF x = key THEN v ELSE m[x]]

\* The value v returns to the visitors waiting on stk: each visitor that has
\* all it asked for returns in turn; the result is the stack left and, once it
\* is empty, the Result of the entry point's T::deserialize.
RECURSIVE Deliver(_, _)
Deliver(stk, v) ==
    IF stk = <<>> THEN [stack |-> <<>>, ret |-> Ok(v)]
    ELSE LET top == stk[1]
             rest == Tail(stk)
         IN  IF top.f = "visit_some" THEN Deliver(rest, Some(v))
             ELSE IF top.f = "visit_newtype_struct" THEN Deliver(rest, v)
             ELSE IF top.f = "visit_variant"
                  THEN Deliver(rest, <<top.idx, IF top.kind = "newtype" THEN <<v>> ELSE v>>)
             ELSE IF top.f = "visit_seq"
                  THEN LET fr == [top EXCEPT !.acc = Append(@, v)]
                       IN  IF fr.vis = "fields" /\ Len(fr.acc) = Len(fr.ts)
                           THEN Deliver(rest, fr.acc)
                           ELSE [stack |-> <<fr>> \o rest, ret |-> Pending]
             ELSE IF top.key = None
                  THEN [stack |-> <<[top EXCEPT !.key = Some(v)]>> \o rest, ret |-> Pending]
                  ELSE [stack |-> <<[top EXCEPT !.acc = Insert(@, top.key[1], v),
                                              !.key = None]>> \o rest,
                        ret |-> Pending]

DeTop(f) ==
    /\ pc \in {"from_bytes", "from_bytes_partial", "from_reader",
              "from_bytes_wire", "from_reader_wire",
              "from_bytes_as", "from_reader_as",
              "from_bytes_trailing", "from_bytes_wire_trailing",
              "from_reader_stream", "from_reader_next"}
    /\ stack # <<>> /\ stack[1].f = f
DeHead(kinds) == DeTop("deserialize") /\ stack[1].t.k \in kinds

DeFrame == UNCHANGED <<ty, val, pc, ser, todo, pads, res, sink0, other, tail, wire, fault>>

\* The method returns Err, which every `?` above it returns in turn.
Fail(d, e) == de' = d /\ stack' = <<>> /\ ret' = Err(e) /\ DeFrame
\* The method hands v to its visitor and returns what the visitor returns.
Visit(d, v) ==
    LET n == Deliver(Tail(stack), v)
    IN  de' = d /\ stack' = n.stack /\ ret' = n.ret /\ DeFrame
\* The method's visitor calls on into the frames given.
Push(d, frames) == de' = d /\ stack' = frames \o Tail(stack) /\ ret' = ret /\ DeFrame
\* visit_seq of a visitor of `ts` fields (none at all: it returns at once).
VisitFields(d, access, ts, under) ==
    IF ts = <<>>
    THEN LET n == Deliver(under \o Tail(stack), <<>>)
         IN  de' = d /\ stack' = n.stack /\ ret' = n.ret /\ DeFrame
    ELSE Push(d, <<VisitSeq(access, "fields", ts)>> \o under)


\* Variant: every non-zero word is true.
\* Variant: the next word is read and dropped before the call is refused.
deserialize_any_skipping ==
    /\ DeHead({"any"})
    /\ LET o == Read(de, "u32", USize(0))
       IN  Fail(o.d, <<"Unsupported", "deserialize_any (XDR is not self-describing)">>)

\* The delegates FixedOpaqueSliceDe / FixedOpaqueReaderDe (via = "fixed") pass
\* the call on to the deserializer they wrap.
deserialize_any ==
    /\ DeHead({"any"})
    /\ Fail(de, <<"Unsupported", "deserialize_any (XDR is not self-describing)">>)

deserialize_ignored_any ==
    /\ DeHead({"ignored_any"})
    /\ Fail(de, <<"Unsupported", "deserialize_ignored_any (XDR is not self-describing)">>)

deserialize_bool_nonzero_true ==
    /\ DeHead({"bool"})
    /\ LET o == Read(de, "u32", USize(0))
       IN  IF IsErr(o.r) THEN Fail(o.d, o.r[2])
           ELSE IF o.r[2] = U32(0) THEN Visit(o.d, FALSE)
           ELSE Visit(o.d, TRUE)

deserialize_bool ==
    /\ DeHead({"bool"})
    /\ LET o == Read(de, "u32", USize(0))
       IN  IF IsErr(o.r) THEN Fail(o.d, o.r[2])
           ELSE IF o.r[2] = U32(0) THEN Visit(o.d, FALSE)
           ELSE IF o.r[2] = U32(1) THEN Visit(o.d, TRUE)
           ELSE Fail(o.d, <<"InvalidBool", o.r[2]>>)

deserialize_i8 ==
    /\ DeHead({"i8"})
    /\ LET o == Read(de, "i32", USize(0))
       IN  IF IsErr(o.r) THEN Fail(o.d, o.r[2]) ELSE Visit(o.d, i32_as_i8(o.r[2]))
deserialize_i16 ==
    /\ DeHead({"i16"})
    /\ LET o == Read(de, "i32", USize(0))
       IN  IF IsErr(o.r) THEN Fail(o.d, o.r[2]) ELSE Visit(o.d, i32_as_i16(o.r[2]))
deserialize_i32 ==
    /\ DeHead({"i32"})
    /\ LET o == Read(de, "i32", USize(0))
       IN  IF IsErr(o.r) THEN Fail(o.d, o.r[2]) ELSE Visit(o.d, o.r[2])
deserialize_i64 ==
    /\ DeHead({"i64"})
    /\ LET o == Read(de, "i64", USize(0))
       IN  IF IsErr(o.r) THEN Fail(o.d, o.r[2]) ELSE Visit(o.d, o.r[2])
deserialize_u8 ==
    /\ DeHead({"u8"})
    /\ LET o == Read(de, "u32", USize(0))
       IN  IF IsErr(o.r) THEN Fail(o.d, o.r[2]) ELSE Visit(o.d, u32_as_u8(o.r[2]))
deserialize_u16 ==
    /\ DeHead({"u16"})
    /\ LET o == Read(de, "u32", USize(0))
       IN  IF IsErr(o.r) THEN Fail(o.d, o.r[2]) ELSE Visit(o.d, u32_as_u16(o.r[2]))
deserialize_u32 ==
    /\ DeHead({"u32"})
    /\ LET o == Read(de, "u32", USize(0))
       IN  IF IsErr(o.r) THEN Fail(o.d, o.r[2]) ELSE Visit(o.d, o.r[2])
deserialize_u64 ==
    /\ DeHead({"u64"})
    /\ LET o == Read(de, "u64", USize(0))
       IN  IF IsErr(o.r) THEN Fail(o.d, o.r[2]) ELSE Visit(o.d, o.r[2])

deserialize_char ==
    /\ DeHead({"char"})
    /\ LET o == Read(de, "u32", USize(0))
       IN  IF IsErr(o.r) THEN Fail(o.d, o.r[2])
           ELSE IF char_from_u32(o.r[2]) = None THEN Fail(o.d, <<"InvalidString">>)
           ELSE Visit(o.d, char_from_u32(o.r[2])[1])

deserialize_string ==
    /\ DeHead({"string"})
    /\ LET o == Read(de, "variable_opaque", USize(0))
       IN  IF IsErr(o.r) THEN Fail(o.d, o.r[2])
           ELSE IF IsErr(from_utf8(o.r[2])) THEN Fail(o.d, <<"InvalidString">>)
           ELSE Visit(o.d, from_utf8(o.r[2])[2])

deserialize_byte_buf ==
    /\ DeHead({"byte_buf"})
    /\ LET o == Read(de, "variable_opaque", USize(0))
       IN  IF IsErr(o.r) THEN Fail(o.d, o.r[2]) ELSE Visit(o.d, o.r[2])


\* Variant: every non-zero discriminant is Some.
deserialize_option_nonzero_some ==
    /\ DeHead({"option"})
    /\ LET o == Read(de, "u32", USize(0))
       IN  IF IsErr(o.r) THEN Fail(o.d, o.r[2])
           ELSE IF o.r[2] = U32(0) THEN Visit(o.d, None)
           ELSE Push(o.d, <<Call(stack[1].t.t, "de"), Visitor("visit_some")>>)

deserialize_option ==
    /\ DeHead({"option"})
    /\ LET o == Read(de, "u32", USize(0))
       IN  IF IsErr(o.r) THEN Fail(o.d, o.r[2])
           ELSE IF o.r[2] = U32(0) THEN Visit(o.d, None)
           ELSE IF o.r[2] = U32(1) THEN Push(o.d, <<Call(stack[1].t.t, "de"), Visitor("visit_some")>>)
           ELSE Fail(o.d, <<"InvalidOption", o.r[2]>>)

deserialize_unit == DeHead({"unit"}) /\ Visit(de, Unit)
deserialize_unit_struct == DeHead({"unit_struct"}) /\ Visit(de, Unit)

\* The newtype call a type makes: a derived newtype struct passes its own name
\* and its visitor deserializes the field; fixed_opaque::deserialize passes the
\* token and FixedOpaqueVisitor, which deserializes [u8; N].
NewtypeVisit(t) ==
    IF t.k = "fixed_opaque"
    THEN [name |-> FIXED_OPAQUE_TOKEN, t |-> TFields("tuple", "", [i \in 1..t.n |-> T("u8")])]
    ELSE [name |-> t.name, t |-> t.t]

deserialize_newtype_struct ==
    /\ DeHead({"newtype_struct", "fixed_opaque"})
    /\ LET c == NewtypeVisit(stack[1].t)
       IN  IF c.name = FIXED_OPAQUE_TOKEN
           THEN Push(de, <<Call(c.t, "fixed"), Visitor("visit_newtype_struct")>>)
           ELSE Push(de, <<Call(c.t, "de"), Visitor("visit_newtype_struct")>>)

deserialize_seq ==
    /\ DeHead({"seq"})
    /\ LET o == Read(de, "u32", USize(0))
       IN  IF IsErr(o.r) THEN Fail(o.d, o.r[2])
           ELSE Push(o.d, <<VisitSeq(SliceSeqAccess_new(u32_as_usize(o.r[2])),
                                     "vec", <<stack[1].t.t>>)>>)

deserialize_tuple ==
    /\ DeHead({"tuple"})
    /\ stack[1].via # "fixed"
    /\ VisitFields(de, SliceSeqAccess_new(USize(Len(stack[1].t.ts))), stack[1].t.ts, <<>>)

deserialize_tuple_struct ==
    /\ DeHead({"tuple_struct"})
    /\ stack[1].via # "fixed"
    /\ VisitFields(de, SliceSeqAccess_new(USize(Len(stack[1].t.ts))), stack[1].t.ts, <<>>)

deserialize_struct ==
    /\ DeHead({"struct"})
    /\ VisitFields(de, SliceSeqAccess_new(USize(Len(stack[1].t.fields))), stack[1].t.ts, <<>>)

deserialize_map ==
    /\ DeHead({"map"})
    /\ LET o == Read(de, "u32", USize(0))
       IN  IF IsErr(o.r) THEN Fail(o.d, o.r[2])
           ELSE Push(o.d, <<VisitMap(u32_as_usize(o.r[2]),
                                     stack[1].t.kt, stack[1].t.vt)>>)

deserialize_enum == DeHead({"enum"}) /\ Push(de, <<EnumAccess(stack[1].t)>>)

\* FixedOpaqueSliceDe / FixedOpaqueReaderDe: deserialize_tuple and
\* deserialize_tuple_struct read the raw bytes at once.
FixedOpaqueDe_deserialize_tuple ==
    /\ DeHead({"tuple", "tuple_struct"})
    /\ stack[1].via = "fixed"
    /\ LET o == Read(de, "padded_bytes", USize(Len(stack[1].t.ts)))
       IN  IF IsErr(o.r) THEN Fail(o.d, o.r[2])
           ELSE VisitFields(o.d, RawByteSeqAccess(o.r[2]), stack[1].t.ts, <<>>)

\* The visitor asked for an element and got Ok(None): Vec's has its value,
\* a visitor of fields fails with invalid_length.
NoElement ==
    IF stack[1].vis = "vec" THEN Visit(de, stack[1].acc)
    ELSE Fail(de, <<"Message", "invalid length">>)

RawByteSeqAccess_next_element_seed ==
    /\ DeTop("visit_seq")
    /\ stack[1].access.a = "raw"
    /\ LET a == stack[1].access
       IN  IF a.pos >= Len(a.data) THEN NoElement
           ELSE LET byte == a.data[a.pos + 1]
                    n == Deliver(<<[stack[1] EXCEPT !.access.pos = @ + 1]>> \o Tail(stack),
                                 byte)
                IN  de' = de /\ stack' = n.stack /\ ret' = n.ret /\ DeFrame


\* SliceSeqAccess::size_hint / ReaderSeqAccess::size_hint
size_hint(access) == Some(access.remaining)

\* Variant: the counter of elements left is not decremented.
SeqAccess_next_element_seed_undecremented ==
    /\ DeTop("visit_seq")
    /\ stack[1].access.a = "seq"
    /\ LET top == stack[1]
           t == IF top.vis = "vec" THEN top.ts[1] ELSE top.ts[Len(top.acc) + 1]
       IN  IF top.access.remaining = USize(0) THEN NoElement
           ELSE Push(de, <<Call(t, "de"), top>>)

SeqAccess_next_element_seed ==
    /\ DeTop("visit_seq")
    /\ stack[1].access.a = "seq"
    /\ LET top == stack[1]
           t == IF top.vis = "vec" THEN top.ts[1] ELSE top.ts[Len(top.acc) + 1]
       IN  IF top.access.remaining = USize(0) THEN NoElement
           ELSE Push(de, <<Call(t, "de"),
                           [top EXCEPT !.access.remaining = usize_dec(@)]>>)

MapAccess_next_key_seed ==
    /\ DeTop("visit_map")
    /\ stack[1].key = None
    /\ LET top == stack[1]
       IN  IF top.access.remaining = USize(0) THEN Visit(de, top.acc)
           ELSE Push(de, <<Call(top.kt, "de"),
                           [top EXCEPT !.access.remaining = usize_dec(@)]>>)

MapAccess_next_value_seed ==
    /\ DeTop("visit_map")
    /\ stack[1].key # None
    /\ Push(de, <<Call(stack[1].vt, "de"), stack[1]>>)

\* variant_seed: the index read goes to the derived enum's field visitor, which
\* rejects an index that names no variant.
EnumAccess_variant_seed ==
    /\ DeTop("enum_access")
    /\ LET o == Read(de, "u32", USize(0))
           t == stack[1].t
       IN  IF IsErr(o.r) THEN Fail(o.d, o.r[2])
           ELSE IF o.r[2][1] # 0 \/ o.r[2][2] >= Len(t.variants)
                THEN Fail(o.d, <<"Message", "invalid value">>)
           ELSE Push(o.d, <<VariantAccess(t, o.r[2][2])>>)

DeVariant(kind) ==
    DeTop("variant_access") /\ stack[1].t.variants[stack[1].idx + 1].k = kind

VariantAccess_unit_variant ==
    /\ DeVariant("unit")
    /\ Visit(de, <<stack[1].idx, <<>>>>)

VariantAccess_newtype_variant_seed ==
    /\ DeVariant("newtype")
    /\ Push(de, <<Call(stack[1].t.variants[stack[1].idx + 1].ts[1], "de"),
                  VisitVariant(stack[1].idx, "newtype")>>)

VariantAccess_tuple_variant ==
    /\ DeVariant("tuple")
    /\ LET v == stack[1].t.variants[stack[1].idx + 1]
       IN  VisitFields(de, SliceSeqAccess_new(USize(Len(v.ts))), v.ts,
                       <<VisitVariant(stack[1].idx, "tuple")>>)

VariantAccess_struct_variant ==
    /\ DeVariant("struct")
    /\ LET v == stack[1].t.variants[stack[1].idx + 1]
       IN  VisitFields(de, SliceSeqAccess_new(USize(Len(v.fields))), v.ts,
                       <<VisitVariant(stack[1].idx, "struct")>>)

(***************************************************************************)
(* The entry points.  The caller encodes val with to_bytes, decodes the    *)
(* bytes with from_bytes and with from_reader, and then either writes val  *)
(* to a sink that already holds sink0 with to_writer, or encodes a second  *)
(* value, puts its bytes and then `tail` after to_bytes(val) and decodes   *)
(* the whole with from_bytes_partial.  Or the caller cuts the bytes short  *)
(* or replaces their first word, and decodes this `wire` with from_bytes   *)
(* and with from_reader.  Or the caller decodes the bytes as another type, *)
(* one that holds a self-describing type, with both.  Or the caller reads  *)
(* val and then the second value with from_reader from one reader that     *)
(* yields the bytes of both and `tail`.  Or, after a from_bytes that       *)
(* succeeded, the caller puts `tail` after its input and calls from_bytes  *)
(* on the whole.                                                           *)
(***************************************************************************)
StartSer(entry, t, v, writer) ==
    /\ pc' = entry
    /\ ser' = Serializer_new(writer)
    /\ todo' = <<Task(t, v, "ser")>>
    /\ pads' = {}
    /\ ret' = Pending
    /\ UNCHANGED <<ty, val, res, de, stack, tail, wire>>

\* let mut de = ...::new(..); T::deserialize(&mut de) for the target type t
StartDe(entry, d, t) ==
    /\ pc' = entry
    /\ de' = d
    /\ stack' = <<Call(t, "de")>>
    /\ ret' = Pending
    /\ UNCHANGED <<ty, val, res, ser, todo, pads, sink0, other, fault>>

Return(entry, r, next) ==
    /\ res' = [res EXCEPT ![entry] = r]
    /\ pc' = next
    /\ UNCHANGED <<ty, val, ser, todo, pads, de, stack, ret, sink0, other, tail, wire, fault>>

\* The second values the caller may encode.
Others ==
    << [t |-> T("u32"), v |-> U32(2)],
       [t |-> T("string"), v |-> <<72, 105>>],
       [t |-> TFixedOpaque(3), v |-> <<1, 2, 3>>],
       [t |-> T("unit"), v |-> Unit],
       \* the tuple of the fields of a FileHandle
       [t |-> TFields("tuple", "", <<T("u64"), T("u32"), T("u32")>>),
        v |-> <<<<258, 772, 1286, 1800>>, U32(42), U32(0)>>],
       \* a byte buffer of 2^32 bytes, a string of 2^32 + 5 bytes, and a byte
       \* buffer of 2^48 bytes after a u32
       [t |-> T("byte_buf"), v |-> <<-1, 0, 1, 0, 0, 171>>],
       [t |-> T("string"), v |-> <<-1, 0, 1, 0, 5, 97>>],
       [t |-> TFields("tuple", "", <<T("u32"), T("byte_buf")>>),
        v |-> <<<<57005, 48879>>, <<-1, 1, 0, 0, 0, 0>>>>] >>
\* The bytes the caller may put after the encodings.
Tails == {<<>>, <<255, 255>>, <<0, 0, 0, 1>>}
\* What the sink given to to_writer may hold already.
Sinks == {<<>>, <<9>>, <<0, 0, 0, 5>>}

\* How the sink given to to_writer may fail: never, or on the write that
\* begins `at` bytes into the output, of which it accepts up to `accept` bytes.
Faults ==
    {None} \cup {Some([at |-> a, accept |-> k, msg |-> "broken pipe"]) :
                    a \in {0, 4, 6, 8}, k \in 0..MaxAccept}

\* The 4-byte words the caller may put in place of the first word of an
\* encoding: the discriminants 0, 1 and others, words with high bits set for
\* the narrow integers, and the ends of the ranges of char.
Words ==
    { <<0, 0, 0, 0>>, <<0, 0, 0, 1>>, <<0, 0, 0, 2>>, <<0, 0, 0, 3>>,
      <<0, 0, 0, 127>>, <<0, 0, 0, 128>>, <<0, 0, 0, 255>>, <<0, 0, 1, 0>>,
      <<0, 0, 1, 255>>, <<0, 0, 127, 255>>, <<0, 0, 128, 0>>,
      <<0, 0, 215, 255>>, <<0, 0, 216, 0>>, <<0, 0, 223, 255>>, <<0, 0, 224, 0>>,
      <<0, 0, 255, 255>>, <<0, 1, 0, 0>>, <<0, 1, 128, 0>>, <<0, 16, 255, 255>>,
      <<0, 17, 0, 0>>, <<1, 0, 0, 1>>, <<127, 255, 255, 255>>, <<128, 0, 0, 0>>,
      <<255, 255, 128, 0>>, <<255, 255, 255, 128>>, <<255, 255, 255, 255>> }

\* What the caller may make of the bytes b of an encoding whose padding is
\* at the positions P: b cut short, b with its first word replaced, and b
\* with other bytes for padding, in all of P or in the last of P.
Wires(b, P) ==
    {SubSeq(b, 1, k) : k \in 0..(Len(b) - 1)}
    \cup {w \o SubSeq(b, 5, Len(b)) : w \in {x \in Words : Len(b) >= 4}}
    \cup {[i \in 1..Len(b) |-> IF i \in Q THEN x ELSE b[i]] :
            x \in {1, 255},
            Q \in {R \in {P, {p \in P : \A q \in P : q <= p}} : R # {}}}

\* The types other than T the caller may decode the bytes of a T as: the
\* self-describing types alone, after a T, under Some, and behind the reserved
\* newtype name that hands a visitor the fixed-opaque delegate.
Targets(t) ==
    { T("any"), T("ignored_any"),
      TFields("tuple", "", <<t, T("any")>>),
      TFields("tuple", "", <<t, T("ignored_any")>>),
      TOf("option", T("ignored_any")),
      TNewtypeStruct(FIXED_OPAQUE_TOKEN, T("any")),
      TNewtypeStruct(FIXED_OPAQUE_TOKEN, T("ignored_any")) }

to_bytes_call ==
    \/ pc = "start" /\ StartSer("to_bytes", ty, val, <<>>) /\ UNCHANGED <<sink0, other, fault>>
    \/ /\ pc = "read"
       /\ \E i \in 1..Len(Others) :
            /\ StartSer("to_bytes_other", Others[i].t, Others[i].v, <<>>)
            /\ other' = <<Others[i]>>
       /\ UNCHANGED <<sink0, fault>>

\* value.serialize(&mut ser)?; Ok(ser.into_writer())
to_bytes_ret ==
    LET result == IF IsErr(ret) THEN ret ELSE Ok(into_writer(ser))
    IN  \/ pc = "to_bytes" /\ todo = <<>> /\ Return("to_bytes", result, "encoded")
        \/ /\ pc = "to_bytes_other" /\ todo = <<>>
           /\ Return("to_bytes_other", result, "encoded_other")

to_writer_call ==
    /\ pc = "read" \/ (pc = "encoded" /\ IsErr(res.to_bytes))
    /\ \E s \in Sinks, f \in Faults :
         sink0' = s /\ fault' = f /\ StartSer("to_writer", ty, val, s)
    /\ UNCHANGED other

\* value.serialize(&mut ser)
to_writer_ret ==
    /\ pc = "to_writer" /\ todo = <<>>
    /\ Return("to_writer", IF IsErr(ret) THEN ret ELSE Ok(Unit), "done")

\* (a Vec<()> given by its length alone is not decoded)
from_bytes_call ==
    \/ /\ pc = "encoded"
       /\ IsOk(res.to_bytes)
       /\ ty.k # "seq_unit"
       /\ \/ /\ StartDe("from_bytes", Deserializer_new(res.to_bytes[2]), ty)
             /\ UNCHANGED wire
          \/ \E w \in Wires(res.to_bytes[2], pads) :
               /\ (ty.k = "seq" /\ ty.t.k = "unit" /\ Len(w) >= 4) =>
                     w[1] = 0 /\ w[2] = 0 /\ w[3] = 0 /\ w[4] <= MaxUnits
               /\ wire' = w
               /\ StartDe("from_bytes_wire", Deserializer_new(w), ty)
          \/ \E t \in Targets(ty) :
               /\ StartDe("from_bytes_as", Deserializer_new(res.to_bytes[2]), t)
               /\ UNCHANGED wire
       /\ UNCHANGED tail
    \* the caller decodes again the bytes a from_bytes succeeded on, with
    \* other bytes after them
    \/ \E t \in Tails \ {<<>>} :
         /\ tail' = t
         /\ \/ /\ pc = "decoded" /\ IsOk(res.from_bytes)
               /\ StartDe("from_bytes_trailing",
                          Deserializer_new(res.to_bytes[2] \o t), ty)
            \/ /\ pc = "decoded_wire" /\ IsOk(res.from_bytes_wire)
               /\ StartDe("from_bytes_wire_trailing", Deserializer_new(wire \o t), ty)
         /\ UNCHANGED wire

\* Variant: input left unread is an error.
from_bytes_ret_all_consumed ==
    LET r == IF IsOk(ret) /\ remaining(de) # <<>>
             THEN Err(<<"Message", "trailing bytes">>) ELSE ret
    IN  \/ pc = "from_bytes" /\ stack = <<>> /\ Return("from_bytes", r, "decoded")
        \/ /\ pc = "from_bytes_wire" /\ stack = <<>>
           /\ Return("from_bytes_wire", r, "decoded_wire")
        \/ /\ pc = "from_bytes_as" /\ stack = <<>>
           /\ Return("from_bytes_as", r, "decoded_as")
        \/ /\ pc = "from_bytes_trailing" /\ stack = <<>>
           /\ Return("from_bytes_trailing", r, "decoded_trailing")
        \/ /\ pc = "from_bytes_wire_trailing" /\ stack = <<>>
           /\ Return("from_bytes_wire_trailing", r, "decoded_trailing")

\* T::deserialize(&mut de): the deserializer is dropped with what it has not
\* read.
from_bytes_ret ==
    \/ pc = "from_bytes" /\ stack = <<>> /\ Return("from_bytes", ret, "decoded")
    \/ /\ pc = "from_bytes_wire" /\ stack = <<>>
       /\ Return("from_bytes_wire", ret, "decoded_wire")
    \/ /\ pc = "from_bytes_as" /\ stack = <<>>
       /\ Return("from_bytes_as", ret, "decoded_as")
    \/ /\ pc = "from_bytes_trailing" /\ stack = <<>>
       /\ Return("from_bytes_trailing", ret, "decoded_trailing")
    \/ /\ pc = "from_bytes_wire_trailing" /\ stack = <<>>
       /\ Return("from_bytes_wire_trailing", ret, "decoded_trailing")

from_reader_call ==
    /\ \/ /\ pc = "decoded"
          /\ StartDe("from_reader",
                     ReaderDeserializer_new([data |-> res.to_bytes[2], off |-> 0]), ty)
       \/ /\ pc = "decoded_wire"
          /\ StartDe("from_reader_wire",
                     ReaderDeserializer_new([data |-> wire, off |-> 0]), ty)
       \/ /\ pc = "decoded_as"
          /\ \E t \in Targets(ty) :
               StartDe("from_reader_as",
                       ReaderDeserializer_new([data |-> res.to_bytes[2], off |-> 0]), t)
       \* the caller reads the second value from the reader the first was
       \* read from: from_reader(&mut reader) twice
       \/ /\ pc = "streamed"
          /\ IsOk(res.from_reader_stream)
          /\ StartDe("from_reader_next", ReaderDeserializer_new(de.reader), other[1].t)
    /\ UNCHANGED <<tail, wire>>

\* from_reader over a reader that yields to_bytes(val), the bytes of the
\* second value and the trailing bytes.
from_reader_stream_call ==
    /\ pc = "encoded_other"
    /\ IsOk(res.to_bytes_other)
    /\ \E t \in Tails :
         /\ tail' = res.to_bytes_other[2] \o t
         /\ StartDe("from_reader_stream",
                    ReaderDeserializer_new([data |-> res.to_bytes[2] \o tail', off |-> 0]), ty)
    /\ UNCHANGED wire

from_reader_ret ==
    \/ pc = "from_reader" /\ stack = <<>> /\ Return("from_reader", ret, "read")
    \/ /\ pc = "from_reader_wire" /\ stack = <<>>
       /\ Return("from_reader_wire", ret, "done")
    \/ /\ pc = "from_reader_as" /\ stack = <<>>
       /\ Return("from_reader_as", ret, "done")
    \/ /\ pc = "from_reader_stream" /\ stack = <<>>
       /\ Return("from_reader_stream", ret, "streamed")
    \/ /\ pc = "from_reader_next" /\ stack = <<>>
       /\ Return("from_reader_next", ret, "end_of_stream")

from_bytes_partial_call ==
    /\ pc = "encoded_other"
    /\ IsOk(res.to_bytes_other)
    /\ \E t \in Tails :
         /\ tail' = res.to_bytes_other[2] \o t
         /\ StartDe("from_bytes_partial", Deserializer_new(res.to_bytes[2] \o tail'), ty)
    /\ UNCHANGED wire

\* let value = T::deserialize(&mut de)?; Ok((value, de.remaining()))
from_bytes_partial_ret ==
    /\ pc = "from_bytes_partial" /\ stack = <<>>
    /\ Return("from_bytes_partial",
              IF IsErr(ret) THEN ret ELSE Ok(<<ret[2], remaining(de)>>), "done")

(***************************************************************************)
(* The types and values the caller encodes.                                *)
(***************************************************************************)
Seqs(S, n) == UNION {[1..k -> S] : k \in 0..n}
Maps(K, V, n) == UNION {[D -> V] : D \in {X \in SUBSET K : Cardinality(X) <= n}}

DEADBEEF == <<57005, 48879>>
FileHandle == TStruct("FileHandle", <<"inode", "generation", "flags">>, <<T("u64"), T("u32"), T("u32")>>)
FileHandles == {<<258, 772, 1286, 1800>>, <<0, 0, 0, 99>>} \X {U32(42)} \X {U32(0), U32(65535)}
FileType ==
    TEnum("FileType",
          <<Arm("Regular", "unit", <<>>, <<>>), Arm("Directory", "unit", <<>>, <<>>),
            Arm("Symlink", "newtype", <<>>, <<T("string")>>),
            Arm("BlockDev", "struct", <<"major", "minor">>, <<T("u32"), T("u32")>>),
            Arm("Range", "tuple", <<>>, <<T("i32"), T("byte_buf")>>)>>)

Catalogue ==
    << [t |-> T("bool"), vs |-> BOOLEAN],
       [t |-> T("i8"), vs |-> {-128, -1, 0, 1, 127}],
       [t |-> T("i16"), vs |-> {-32768, -1, 0, 258, 32767}],
       [t |-> T("i32"), vs |-> {-2147483647 - 1, -42, -1, 0, 1, 1234567, 2147483647}],
       [t |-> T("i64"), vs |-> {<<0, U32(0)>>, <<0, U32(1)>>, <<-1, U32_MAX>>,
                            <<-2147483647 - 1, U32(0)>>, <<2147483647, U32_MAX>>,
                            <<16909060, <<1286, 1800>>>>}],
       [t |-> T("u8"), vs |-> {0, 1, 200, 255}],
       [t |-> T("u16"), vs |-> {0, 258, 65535}],
       [t |-> T("u32"), vs |-> {U32(0), U32(1), U32(42), DEADBEEF, U32_MAX}],
       [t |-> T("u64"), vs |-> {<<0, 0, 0, 0>>, <<258, 772, 1286, 1800>>,
                            <<43981, 61185, 9029, 26505>>,
                            <<65535, 65535, 65535, 65535>>}],
       [t |-> T("char"), vs |-> {65, 233, 8364, 55295, 57344, 1114111}],
       [t |-> T("string"), vs |-> Seqs({72, 105}, MaxLen) \cup {<<195, 169>>, <<226, 130, 172>>}],
       [t |-> T("byte_buf"), vs |-> Seqs({1, 255}, MaxLen)],
       [t |-> T("unit"), vs |-> {Unit}],
       [t |-> TOf("option", T("u32")), vs |-> {None, Some(U32(7))}],
       [t |-> TOf("option", T("string")), vs |-> {None, Some(<<>>), Some(<<72, 105>>)}],
       [t |-> TOf("seq", T("u32")), vs |-> Seqs({U32(1), DEADBEEF}, MaxSeq)],
       [t |-> TOf("seq", T("string")), vs |-> Seqs({<<>>, <<72, 105>>, <<97, 98, 99>>}, MaxSeq)],
       [t |-> TMap(T("i32"), T("string")), vs |-> Maps({-1, 2, 7}, {<<>>, <<72, 105>>}, MaxSeq)],
       [t |-> TFields("tuple", "", <<T("u32"), T("string"), T("bool")>>),
        vs |-> {U32(1), DEADBEEF} \X {<<72, 105>>, <<97, 98, 99, 100, 101>>} \X BOOLEAN],
       [t |-> TFields("tuple", "", <<>>), vs |-> {<<>>}],
       [t |-> TFields("tuple", "", <<T("u32"), T("u32"), T("u32")>>),
        vs |-> {U32(1)} \X {U32(2)} \X {U32(3), DEADBEEF}],
       [t |-> TFields("unit_struct", "Marker", <<>>), vs |-> {Unit}],
       [t |-> TNewtypeStruct("Wrapper", T("u32")), vs |-> {U32(1), DEADBEEF}],
       [t |-> TFields("tuple_struct", "Pair", <<T("i32"), T("u8")>>), vs |-> {-1, 7} \X {0, 255}],
       [t |-> FileHandle, vs |-> FileHandles],
       [t |-> TStruct("StateId", <<"seq_id", "other">>, <<T("u32"), TFixedOpaque(12)>>),
        vs |-> {U32(7), DEADBEEF} \X {<<1, 2, 3, 4, 5, 6, 7, 8, 9, 10, 11, 12>>}],
       [t |-> TStruct("LookupResult", <<"found", "handle", "name">>,
                    <<T("bool"), TOf("option", FileHandle), T("string")>>),
        vs |-> BOOLEAN \X ({None} \cup {Some(h) : h \in FileHandles})
                       \X {<<>>, <<116, 101, 115, 116>>, <<72, 105>>}],
       [t |-> TEnum("Color", <<Arm("Red", "unit", <<>>, <<>>), Arm("Green", "unit", <<>>, <<>>),
                             Arm("Blue", "unit", <<>>, <<>>)>>), vs |-> {<<i, <<>>>> : i \in 0..2}],
       [t |-> FileType,
        vs |-> {<<0, <<>>>>, <<1, <<>>>>}
               \cup {<<2, <<s>>>> : s \in Seqs({47, 97}, 3)}
               \cup {<<3, <<U32(8), U32(1)>>>>}
               \cup {<<4, <<n, b>>>> : n \in {-1, 5}, b \in Seqs({255}, 2)}],
       [t |-> TOf("seq_unsized", T("u32")), vs |-> Seqs({U32(1)}, MaxSeq)],
       [t |-> TFields("tuple", "", <<T("string"), TOf("seq_unsized", T("u32"))>>),
        vs |-> {<<72, 105>>} \X Seqs({U32(1)}, 1)],
       [t |-> [TMap(T("i32"), T("string")) EXCEPT !.k = "map_unsized"],
        vs |-> Maps({2}, {<<72, 105>>}, 1)],
       \* Vec<()> of 0, 2, 2^32 - 1, 2^32 and 2^32 + 5 elements
       [t |-> TOf("seq_unit", T("unit")),
        vs |-> {<<0, 0, 0, 0>>, <<0, 0, 0, 2>>, <<0, 0, 65535, 65535>>,
                <<0, 1, 0, 0>>, <<0, 1, 0, 5>>}],
       \* Vec<()> again, as the sequence of its elements: they occupy no bytes
       [t |-> TOf("seq", T("unit")), vs |-> Seqs({Unit}, MaxSeq)],
       [t |-> TOf("seq", FileType),
        vs |-> Seqs({<<1, <<>>>>, <<2, <<<<47, 97, 47>>>>>>, <<3, <<U32(8), U32(1)>>>>}, MaxSeq)]
    >> \o [n \in 1..(MaxLen + 1) |->
            [t |-> TFixedOpaque(n - 1), vs |-> [1..(n - 1) -> {1, 255}]]]

Init ==
    /\ \E i \in 1..Len(Catalogue) : ty = Catalogue[i].t /\ val \in Catalogue[i].vs
    /\ pc = "start"
    /\ ser = Serializer_new(<<>>)
    /\ todo = <<>>
    /\ pads = {}
    /\ de = Deserializer_new(<<>>)
    /\ stack = <<>>
    /\ ret = Pending
    /\ res = [to_bytes |-> Pending, from_bytes |-> Pending, from_reader |-> Pending,
              to_writer |-> Pending, to_bytes_other |-> Pending,
              from_bytes_partial |-> Pending, from_bytes_wire |-> Pending,
              from_reader_wire |-> Pending, from_bytes_as |-> Pending,
              from_reader_as |-> Pending, from_reader_stream |-> Pending,
              from_reader_next |-> Pending, from_bytes_trailing |-> Pending,
              from_bytes_wire_trailing |-> Pending]
    /\ sink0 = <<>>
    /\ other = <<>>
    /\ tail = <<>>
    /\ wire = <<>>
    /\ fault = None

\* A step of a decode: a method of a deserializer or of one of its accessors.
Decode ==
    \/ deserialize_any \/ deserialize_ignored_any
    \/ deserialize_bool \/ deserialize_i8 \/ deserialize_i16 \/ deserialize_i32
    \/ deserialize_i64 \/ deserialize_u8 \/ deserialize_u16 \/ deserialize_u32
    \/ deserialize_u64 \/ deserialize_char \/ deserialize_string
    \/ deserialize_byte_buf \/ deserialize_option \/ deserialize_unit
    \/ deserialize_unit_struct \/ deserialize_newtype_struct \/ deserialize_seq
    \/ deserialize_tuple \/ deserialize_tuple_struct \/ deserialize_struct
    \/ deserialize_map \/ deserialize_enum \/ FixedOpaqueDe_deserialize_tuple
    \/ RawByteSeqAccess_next_element_seed \/ SeqAccess_next_element_seed
    \/ MapAccess_next_key_seed \/ MapAccess_next_value_seed
    \/ EnumAccess_variant_seed \/ VariantAccess_unit_variant
    \/ VariantAccess_newtype_variant_seed \/ VariantAccess_tuple_variant
    \/ VariantAccess_struct_variant

Next ==
    \/ to_bytes_call \/ to_bytes_ret
    \/ from_bytes_call \/ from_bytes_ret
    \/ from_reader_call \/ from_reader_stream_call \/ from_reader_ret
    \/ to_writer_call \/ to_writer_ret
    \/ from_bytes_partial_call \/ from_bytes_partial_ret
    \/ serialize_bool \/ serialize_i8 \/ serialize_i16 \/ serialize_i32
    \/ serialize_i64 \/ serialize_u8 \/ serialize_u16 \/ serialize_u32
    \/ serialize_u64 \/ serialize_char \/ serialize_str \/ serialize_bytes
    \/ serialize_none \/ serialize_some \/ serialize_unit
    \/ serialize_unit_struct \/ serialize_unit_variant
    \/ serialize_newtype_struct \/ serialize_newtype_variant
    \/ serialize_seq \/ serialize_tuple \/ serialize_tuple_struct
    \/ serialize_tuple_variant \/ serialize_map \/ serialize_struct
    \/ serialize_struct_variant \/ FixedOpaqueSerializer_serialize_bytes
    \/ Decode

Spec == Init /\ [][Next]_vars

(***************************************************************************)
(* Properties.                                                             *)
(***************************************************************************)
PadLen(n) == (4 - (n % 4)) % 4
Zeros(k) == [i \in 1..k |-> 0]
\* The four bytes of 0 <= n < 2^31, most significant first.
BE32(n) == <<n \div 16777216, (n \div 65536) % 256, (n \div 256) % 256, n % 256>>
\* The four bytes of the two's complement image of an i32.
TwosComplement32(v) ==
    IF v >= 0 THEN BE32(v) ELSE [i \in 1..4 |-> 255 - BE32(-(v + 1))[i]]
\* The four bytes of a u32 <<hi, lo>>.
BE32Word(w) == <<w[1] \div 256, w[1] % 256, w[2] \div 256, w[2] % 256>>

\* The types every value of which declares its length.
RECURSIVE Sized(_)
Sized(t) ==
    IF t.k \in {"seq_unsized", "map_unsized"} THEN FALSE
    ELSE IF t.k \in {"option", "seq", "newtype_struct"} THEN Sized(t.t)
    ELSE IF t.k = "map" THEN Sized(t.kt) /\ Sized(t.vt)
    ELSE IF t.k \in {"tuple", "tuple_struct", "struct"}
         THEN \A i \in DOMAIN t.ts : Sized(t.ts[i])
    ELSE IF t.k = "enum"
         THEN \A i \in DOMAIN t.variants :
                 \A j \in DOMAIN t.variants[i].ts : Sized(t.variants[i].ts[j])
    ELSE TRUE

Returned(entry) == res[entry] # Pending

\* The concatenation of a sequence of byte strings.
RECURSIVE Cat(_)
Cat(ss) == IF ss = <<>> THEN <<>> ELSE ss[1] \o Cat(Tail(ss))

\* The XDR image of a value v of type t as RFC 4506 and the crate's
\* documentation lay it out, stated on the bytes without the write helpers.
RECURSIVE Xdr(_, _)
Xdr(t, v) ==
    CASE t.k = "bool" -> IF v THEN <<0, 0, 0, 1>> ELSE <<0, 0, 0, 0>>
      [] t.k \in {"i8", "i16", "i32"} -> TwosComplement32(v)
      [] t.k \in {"u8", "u16", "char"} -> BE32(v)
      [] t.k = "u32" -> BE32Word(v)
      [] t.k = "u64" -> BE32Word(<<v[1], v[2]>>) \o BE32Word(<<v[3], v[4]>>)
      [] t.k = "i64" -> TwosComplement32(v[1]) \o BE32Word(v[2])
      [] t.k \in {"string", "byte_buf"} -> BE32(Len(v)) \o v \o Zeros(PadLen(Len(v)))
      [] t.k \in {"unit", "unit_struct"} -> <<>>
      [] t.k = "option" ->
            IF v = None THEN <<0, 0, 0, 0>> ELSE <<0, 0, 0, 1>> \o Xdr(t.t, v[1])
      [] t.k = "seq" -> BE32(Len(v)) \o Cat([i \in 1..Len(v) |-> Xdr(t.t, v[i])])
      [] t.k = "map" ->
            LET keys == SortedSeq(DOMAIN v)
            IN  BE32(Len(keys))
                \o Cat([i \in 1..Len(keys) |-> Xdr(t.kt, keys[i]) \o Xdr(t.vt, v[keys[i]])])
      [] t.k \in {"tuple", "tuple_struct", "struct"} ->
            Cat([i \in 1..Len(t.ts) |-> Xdr(t.ts[i], v[i])])
      [] t.k = "newtype_struct" -> Xdr(t.t, v)
      [] t.k = "fixed_opaque" -> v \o Zeros(PadLen(Len(v)))
      [] t.k = "enum" ->
            LET arm == t.variants[v[1] + 1]
            IN  BE32(v[1]) \o Cat([i \in 1..Len(arm.ts) |-> Xdr(arm.ts[i], v[2][i])])

C2_LengthMultipleOf4 ==
    /\ IsOk(res.to_bytes) => Len(res.to_bytes[2]) % 4 = 0
    /\ IsOk(res.to_bytes_other) => Len(res.to_bytes_other[2]) % 4 = 0

\* to_bytes has returned the 8 bytes of a one-byte string.
C2_Witness ==
    /\ pc = "encoded"
    /\ ty.k = "string" /\ Len(val) = 1
    /\ IsOk(res.to_bytes) /\ Len(res.to_bytes[2]) = 8

\* C3: every byte of to_bytes(val) in a padding region (the (4 - n mod 4) mod 4
\* positions after the n data bytes of a string, a variable opaque or a fixed
\* opaque) is 0x00.
C3_PaddingIsZero ==
    pc \in {"to_bytes", "encoded", "to_bytes_other", "encoded_other"} =>
        \A p \in pads : p \in 1..Len(ser.writer) /\ ser.writer[p] = 0

\* to_bytes has returned a sequence of two strings with 2 + 1 padding bytes.
C3_Witness ==
    /\ pc = "encoded"
    /\ ty.k = "seq" /\ ty.t.k = "string"
    /\ Cardinality(pads) = 3
    /\ res.to_bytes = Ok(ser.writer)
    /\ \A p \in pads : ser.writer[p] = 0

C5_WriterSameAsBytes ==
    (Returned("to_writer") /\ fault = None) =>
        IF IsOk(res.to_bytes)
        THEN res.to_writer = Ok(Unit) /\ ser.writer = sink0 \o res.to_bytes[2]
        ELSE res.to_writer = res.to_bytes

\* to_writer has appended a padded string to a sink that held one byte.
C5_Witness ==
    /\ pc = "done"
    /\ ty.k = "string" /\ Len(val) = 2
    /\ sink0 = <<9>>
    /\ res.to_writer = Ok(Unit)
    /\ ser.writer = <<9, 0, 0, 0, 2>> \o val \o <<0, 0>>

\* C6: from_reader over a reader that yields to_bytes(val) returns what
\* from_bytes(to_bytes(val)) returns.
C6_ReaderSameAsSlice ==
    Returned("from_reader") => res.from_reader = res.from_bytes

\* Both decoders have returned a tuple whose string carries 3 padding bytes.
C6_Witness ==
    /\ pc = "read"
    /\ ty.k = "tuple" /\ Len(ty.ts) = 3 /\ Len(val[2]) = 5
    /\ res.from_bytes = Ok(val)
    /\ res.from_reader = Ok(val)

\* C7: fixed-width integers are written big-endian: 4 bytes for a 32-bit and
\* 8 bytes for a 64-bit value, most significant byte first, signed values in
\* two's complement; i8/i16 are sign-extended and u8/u16 zero-extended to the
\* 32-bit block.
C7_BigEndian ==
    pc = "encoded" =>
        /\ ty.k \in {"i8", "i16", "i32"} => res.to_bytes = Ok(TwosComplement32(val))
        /\ ty.k \in {"u8", "u16"} => res.to_bytes = Ok(BE32(val))
        /\ ty.k = "u32" => res.to_bytes = Ok(BE32Word(val))
        /\ ty.k = "u64" =>
             res.to_bytes = Ok(BE32Word(<<val[1], val[2]>>) \o BE32Word(<<val[3], val[4]>>))
        /\ ty.k = "i64" =>
             res.to_bytes = Ok(TwosComplement32(val[1]) \o BE32Word(val[2]))
        /\ (ty.k = "u32" /\ val = DEADBEEF) => res.to_bytes = Ok(<<222, 173, 190, 239>>)
        /\ (ty.k = "i32" /\ val = 1) => res.to_bytes = Ok(<<0, 0, 0, 1>>)
        /\ (ty.k \in {"i8", "i16", "i32"} /\ val = -1) =>
             res.to_bytes = Ok(<<255, 255, 255, 255>>)
        /\ (ty.k = "u8" /\ val = 255) => res.to_bytes = Ok(<<0, 0, 0, 255>>)
        /\ (ty.k = "u64" /\ val = <<258, 772, 1286, 1800>>) =>
             res.to_bytes = Ok(<<1, 2, 3, 4, 5, 6, 7, 8>>)
        /\ (ty.k = "i64" /\ val = <<-1, U32_MAX>>) =>
             res.to_bytes = Ok(<<255, 255, 255, 255, 255, 255, 255, 255>>)

\* to_bytes has returned DE AD BE EF for the u32 0xDEADBEEF.
C7_Witness ==
    /\ pc = "encoded"
    /\ ty.k = "u32" /\ val = DEADBEEF
    /\ res.to_bytes = Ok(<<222, 173, 190, 239>>)

\* C8: a string or byte buffer of n bytes is encoded as the 4-byte big-endian
\* count n, the n data bytes unchanged, and (4 - n mod 4) mod 4 zero bytes.
C8_VariableOpaqueLayout ==
    (pc = "encoded" /\ ty.k \in {"string", "byte_buf"}) =>
        /\ res.to_bytes = Ok(BE32(Len(val)) \o val \o Zeros(PadLen(Len(val))))
        /\ Len(res.to_bytes[2]) = 4 + Len(val) + PadLen(Len(val))
        /\ val = <<>> => res.to_bytes = Ok(<<0, 0, 0, 0>>)
        /\ val = <<72, 105>> => res.to_bytes = Ok(<<0, 0, 0, 2, 72, 105, 0, 0>>)

\* to_bytes has returned a byte buffer of 5 bytes with its 3 padding bytes.
C8_Witness ==
    /\ pc = "encoded"
    /\ ty.k = "byte_buf" /\ Len(val) = 5
    /\ res.to_bytes = Ok(<<0, 0, 0, 5>> \o val \o <<0, 0, 0>>)

\* C9: an N-byte array under the fixed-opaque newtype is encoded as its N raw
\* bytes and (4 - N mod 4) mod 4 zero bytes, with no length prefix and no
\* promotion of its bytes; N = 0 emits nothing; StateId {seq_id: 7,
\* other: 1..12} is the 16 bytes 00 00 00 07 01 .. 0C.
C9_FixedOpaqueLayout ==
    pc = "encoded" =>
        /\ ty.k = "fixed_opaque" =>
             /\ res.to_bytes = Ok(val \o Zeros(PadLen(ty.n)))
             /\ ty.n = 0 => res.to_bytes = Ok(<<>>)
        /\ (ty.k = "struct" /\ ty.name = "StateId") =>
             /\ res.to_bytes = Ok(BE32Word(val[1]) \o val[2])
             /\ val[1] = U32(7) =>
                  res.to_bytes = Ok(<<0, 0, 0, 7, 1, 2, 3, 4, 5, 6, 7, 8, 9, 10, 11, 12>>)

\* to_bytes has returned the 16 bytes of StateId {seq_id: 7, other: 1..12}.
C9_Witness ==
    /\ pc = "encoded"
    /\ ty.k = "struct" /\ ty.name = "StateId"
    /\ val[1] = U32(7)
    /\ Len(res.to_bytes[2]) = 16

\* C10: decoding a fixed opaque of length L consumes exactly
\* L + (4 - L mod 4) mod 4 bytes and no length prefix, yields the L data bytes
\* in order as u8 elements, and so returns the array that was encoded, from
\* the slice and from the reader.
C10_FixedOpaqueDecode ==
    /\ \A i \in DOMAIN stack :
         (stack[i].f = "visit_seq" /\ stack[i].access.a = "raw") =>
            /\ stack[i].acc = SubSeq(stack[i].access.data, 1, stack[i].access.pos)
            /\ Len(stack[i].access.data) = Len(stack[i].ts)
    /\ ty.k = "fixed_opaque" =>
         /\ pc = "decoded" =>
              res.from_bytes = Ok(val) /\ de.pos = ty.n + PadLen(ty.n)
         /\ pc = "read" =>
              res.from_reader = Ok(val) /\ de.reader.off = ty.n + PadLen(ty.n)
         /\ Returned("from_bytes_partial") =>
              /\ res.from_bytes_partial = Ok(<<val, tail>>)
              /\ de.pos = ty.n + PadLen(ty.n)
    /\ (ty.k = "struct" /\ ty.name = "StateId") =>
         /\ pc = "decoded" => res.from_bytes = Ok(val) /\ de.pos = 16
         /\ pc = "read" => res.from_reader = Ok(val) /\ de.reader.off = 16

\* from_bytes_partial has returned a 5-byte array and left the bytes after its
\* 8 in place, and from_reader has returned the array as well.
C10_Witness ==
    /\ pc = "done"
    /\ ty.k = "fixed_opaque" /\ ty.n = 5
    /\ Len(tail) > 0
    /\ res.from_bytes_partial = Ok(<<val, tail>>)
    /\ de.pos = 8
    /\ res.from_reader = Ok(val)

\* C11: a tagged-union value is encoded as its zero-based variant index, 4
\* bytes big-endian, followed by the arm's payload: nothing for a unit arm, the
\* inner value for a newtype arm, the fields in declaration order without a
\* count for a tuple or struct arm; BlockDev {major: 8, minor: 1}, the arm of
\* index 3, is 00 00 00 03 00 00 00 08 00 00 00 01.
C11_EnumLayout ==
    pc = "encoded" =>
        /\ ty.k = "enum" =>
             LET arm == ty.variants[val[1] + 1]
                 payload ==
                     IF arm.k = "unit" THEN <<>>
                     ELSE IF arm.k = "newtype" THEN Xdr(arm.ts[1], val[2][1])
                     ELSE Cat([i \in 1..Len(arm.ts) |-> Xdr(arm.ts[i], val[2][i])])
             IN  /\ res.to_bytes = Ok(BE32(val[1]) \o payload)
                 /\ SubSeq(res.to_bytes[2], 1, 4) = <<0, 0, 0, val[1]>>
                 /\ arm.k = "unit" => Len(res.to_bytes[2]) = 4
        /\ (ty.k = "enum" /\ ty.name = "FileType") =>
             /\ val = <<3, <<U32(8), U32(1)>>>> =>
                  res.to_bytes = Ok(<<0, 0, 0, 3, 0, 0, 0, 8, 0, 0, 0, 1>>)
             /\ val = <<2, <<(<<47, 97>>)>>>> =>
                  res.to_bytes = Ok(<<0, 0, 0, 2, 0, 0, 0, 2, 47, 97, 0, 0>>)
             /\ val = <<4, <<-1, <<255>>>>>> =>
                  res.to_bytes =
                      Ok(<<0, 0, 0, 4, 255, 255, 255, 255, 0, 0, 0, 1, 255, 0, 0, 0>>)
        /\ (ty.k = "seq" /\ ty.t.k = "enum") => res.to_bytes = Ok(Xdr(ty, val))

\* to_bytes has returned the 12 bytes of BlockDev {major: 8, minor: 1}.
C11_Witness ==
    /\ pc = "encoded"
    /\ ty.k = "enum" /\ ty.name = "FileType"
    /\ val = <<3, <<U32(8), U32(1)>>>>
    /\ res.to_bytes = Ok(<<0, 0, 0, 3, 0, 0, 0, 8, 0, 0, 0, 1>>)

\* The count a sequence or map starts with: the first word of the input, as
\* the pair of its 16-bit halves.
WireCount(b) == <<b[1] * 256 + b[2], b[3] * 256 + b[4]>>
\* The first n entries of a map, in the order of its keys.
FirstEntries(m, n) ==
    LET keys == SortedSeq(DOMAIN m)
    IN  [x \in {keys[i] : i \in 1..n} |-> m[x]]

C13_FieldsConcatenated ==
    /\ (pc = "encoded" /\ ty.k \in {"tuple", "tuple_struct", "struct"} /\ Sized(ty)) =>
          /\ res.to_bytes = Ok(Cat([i \in 1..Len(ty.ts) |-> Xdr(ty.ts[i], val[i])]))
          /\ (ty.ts = <<T("u32"), T("u32"), T("u32")>> /\ val = <<U32(1), U32(2), U32(3)>>) =>
                res.to_bytes = Ok(<<0, 0, 0, 1, 0, 0, 0, 2, 0, 0, 0, 3>>)
          /\ (ty.k = "tuple_struct" /\ val = <<-1, 7>>) =>
                res.to_bytes = Ok(<<255, 255, 255, 255, 0, 0, 0, 7>>)
    /\ (pc = "decoded" /\ ty.k \in {"tuple", "tuple_struct", "struct"}) =>
          res.from_bytes = Ok(val)
    /\ (pc = "read" /\ ty.k \in {"tuple", "tuple_struct", "struct"}) =>
          res.from_reader = Ok(val)
    /\ (/\ Returned("to_bytes_other") /\ ty.k = "struct" /\ other[1].t.k = "tuple"
        /\ other[1].t.ts = ty.ts /\ other[1].v = val) =>
          res.to_bytes_other = res.to_bytes

\* to_bytes has returned the same 16 bytes for a FileHandle and for the tuple
\* of its three fields.
C13_Witness ==
    /\ pc = "encoded_other"
    /\ ty.k = "struct" /\ ty.name = "FileHandle"
    /\ other[1].t.k = "tuple" /\ other[1].v = val
    /\ res.to_bytes_other = res.to_bytes
    /\ res.to_bytes = Ok(<<1, 2, 3, 4, 5, 6, 7, 8, 0, 0, 0, 42, 0, 0, 0, 0>>)

\* C14: decoding a bool reads one 4-byte unsigned word w: 0 is false, 1 is
\* true, and every other w fails with InvalidBool(w), on the slice decoder and
\* on the reader decoder.
C14_InvalidBool ==
    (Len(wire) >= 4 /\ (ty.k = "bool" \/ (ty.k = "struct" /\ ty.ts[1].k = "bool"))) =>
        LET w == WireCount(wire)
            rejected == Err(<<"InvalidBool", w>>)
        IN  /\ (ty.k = "bool" /\ Returned("from_bytes_wire")) =>
                 res.from_bytes_wire = IF w = <<0, 0>> THEN Ok(FALSE)
                                       ELSE IF w = <<0, 1>> THEN Ok(TRUE)
                                       ELSE rejected
            /\ (ty.k = "bool" /\ Returned("from_reader_wire")) =>
                 res.from_reader_wire = IF w = <<0, 0>> THEN Ok(FALSE)
                                        ELSE IF w = <<0, 1>> THEN Ok(TRUE)
                                        ELSE rejected
            /\ (ty.k = "struct" /\ w \notin {<<0, 0>>, <<0, 1>>}) =>
                 /\ Returned("from_bytes_wire") => res.from_bytes_wire = rejected
                 /\ Returned("from_reader_wire") => res.from_reader_wire = rejected

\* Both decoders have failed with InvalidBool(2) on the word 00 00 00 02.
C14_Witness ==
    /\ pc = "done"
    /\ ty.k = "bool"
    /\ wire = <<0, 0, 0, 2>>
    /\ res.from_bytes_wire = Err(<<"InvalidBool", U32(2)>>)
    /\ res.from_reader_wire = Err(<<"InvalidBool", U32(2)>>)

\* C15: decoding an optional reads one 4-byte unsigned discriminant d: 0 is
\* None and nothing more is consumed, 1 decodes the payload that follows, and
\* every other d fails with InvalidOption(d) with no payload byte read.
C15_InvalidOption ==
    /\ (pc = "decoded" /\ ty.k = "option") => res.from_bytes = Ok(val)
    /\ (ty.k = "option" /\ Len(wire) >= 4 /\ Len(wire) = Len(res.to_bytes[2])) =>
          LET d == WireCount(wire)
              expected == IF d = <<0, 0>> THEN Ok(None)
                          ELSE IF d = <<0, 1>>
                               THEN IF val = None THEN Err(<<"UnexpectedEof">>) ELSE Ok(val)
                          ELSE Err(<<"InvalidOption", d>>)
              consumed == IF d = <<0, 1>> THEN Len(wire) ELSE 4
          IN  /\ Returned("from_bytes_wire") => res.from_bytes_wire = expected
              /\ Returned("from_reader_wire") => res.from_reader_wire = expected
              /\ pc = "decoded_wire" => de.pos = consumed
              /\ pc = "done" => de.reader.off = consumed

\* Both decoders have failed with InvalidOption(2) on a discriminant of 2 that
\* a payload follows, after 4 bytes.
C15_Witness ==
    /\ pc = "done"
    /\ ty.k = "option" /\ val # None
    /\ Len(wire) > 4
    /\ SubSeq(wire, 1, 4) = <<0, 0, 0, 2>>
    /\ res.from_bytes_wire = Err(<<"InvalidOption", U32(2)>>)
    /\ res.from_reader_wire = Err(<<"InvalidOption", U32(2)>>)
    /\ de.reader.off = 4

\* C16: take(n) of the slice decoder returns the n bytes input[pos..pos+n] and
\* advances pos by n when n bytes remain, and fails with UnexpectedEof leaving
\* pos in place otherwise; so from_bytes of an input that ends before the bytes
\* the value needs fails with UnexpectedEof.
C16_TakeOrUnexpectedEof ==
    /\ (Returned("from_bytes_wire") /\ Len(wire) < Len(res.to_bytes[2])) =>
          res.from_bytes_wire = Err(<<"UnexpectedEof">>)
    /\ (pc = "decoded_wire" /\ ty.k = "u32") =>
          IF Len(wire) < 4
          THEN res.from_bytes_wire = Err(<<"UnexpectedEof">>) /\ de.pos = 0
          ELSE res.from_bytes_wire = Ok(WireCount(wire)) /\ de.pos = 4
    /\ (pc = "decoded_wire" /\ ty.k = "u64") =>
          IF Len(wire) < 8
          THEN res.from_bytes_wire = Err(<<"UnexpectedEof">>) /\ de.pos = 0
          ELSE /\ res.from_bytes_wire =
                     Ok(WireCount(wire) \o WireCount(SubSeq(wire, 5, 8)))
               /\ de.pos = 8
    /\ (pc = "decoded_wire" /\ ty.k = "byte_buf") =>
          IF Len(wire) < 4
          THEN res.from_bytes_wire = Err(<<"UnexpectedEof">>) /\ de.pos = 0
          ELSE LET n == WireCount(wire)
                   left == Len(wire) - 4
               IN  IF n[1] > 0 \/ n[2] > left
                   THEN res.from_bytes_wire = Err(<<"UnexpectedEof">>) /\ de.pos = 4
                   ELSE IF n[2] + PadLen(n[2]) > left
                   THEN res.from_bytes_wire = Err(<<"UnexpectedEof">>) /\ de.pos = 4 + n[2]
                   ELSE /\ res.from_bytes_wire = Ok(SubSeq(wire, 5, 4 + n[2]))
                        /\ de.pos = 4 + n[2] + PadLen(n[2])

\* from_bytes of the first 3 bytes of an encoded u32 has failed with
\* UnexpectedEof and has taken nothing.
C16_Witness ==
    /\ pc = "decoded_wire"
    /\ ty.k = "u32"
    /\ Len(wire) = 3
    /\ res.from_bytes_wire = Err(<<"UnexpectedEof">>)
    /\ de.pos = 0

\* C17: starting the encode of a sequence or of a map with no declared length
\* (len = None) fails with LengthRequired: to_bytes and to_writer return it,
\* whatever the elements are and wherever the sequence sits in the value, and
\* serialize_seq / serialize_map write nothing.
C17_LengthRequired ==
    /\ (pc = "encoded" /\ ~Sized(ty)) => res.to_bytes = Err(<<"LengthRequired">>)
    /\ (pc = "encoded" /\ ty.k \in {"seq_unsized", "map_unsized"}) => ser.writer = <<>>
    /\ (pc = "encoded" /\ ty.k = "tuple" /\ ~Sized(ty)) => ser.writer = Xdr(ty.ts[1], val[1])
    /\ (Returned("to_writer") /\ ~Sized(ty) /\ fault = None) =>
          res.to_writer = Err(<<"LengthRequired">>)
    /\ (Returned("to_writer") /\ ty.k \in {"seq_unsized", "map_unsized"}) =>
          ser.writer = sink0

\* to_bytes of a map of one entry that declares no length has failed with
\* LengthRequired.
C17_Witness ==
    /\ pc = "encoded"
    /\ ty.k = "map_unsized" /\ val # <<>>
    /\ res.to_bytes = Err(<<"LengthRequired">>)

\* C18: encoding a sequence whose declared length exceeds 2^32 - 1 fails with
\* LengthOverflow {max: u32::MAX, got: u32::MAX}, and the count written in
\* front of a sequence is never a truncation of its length.
C18_SeqLengthOverflow ==
    (pc = "encoded" /\ ty.k = "seq_unit") =>
        IF val[1] > 0 \/ val[2] > 0
        THEN res.to_bytes = Err(<<"LengthOverflow", U32_MAX, U32_MAX>>)
        ELSE res.to_bytes = Ok(BE32Word(<<val[3], val[4]>>))

\* C19: the narrow integers decode by truncating a full 4-byte word without
\* validation: a word decodes to its low 8 bits as a u8, to its low 16 bits as
\* a u16 (00 00 00 FF is 255, 00 00 01 00 is 0), and to these bits read in two's
\* complement as an i8 or i16; no set high bit makes the decode fail, and every
\* value of the narrow range is returned as it was encoded.
C19_NarrowTruncation ==
    ty.k \in {"u8", "u16", "i8", "i16"} =>
        /\ Returned("from_bytes") => res.from_bytes = Ok(val)
        /\ Returned("from_reader") => res.from_reader = Ok(val)
        /\ Len(wire) >= 4 =>
             LET low8 == wire[4]
                 low16 == wire[3] * 256 + wire[4]
                 expected ==
                     CASE ty.k = "u8" -> low8
                       [] ty.k = "u16" -> low16
                       [] ty.k = "i8" -> IF low8 >= 128 THEN low8 - 256 ELSE low8
                       [] ty.k = "i16" -> IF low16 >= 32768 THEN low16 - 65536 ELSE low16
             IN  /\ Returned("from_bytes_wire") => res.from_bytes_wire = Ok(expected)
                 /\ Returned("from_reader_wire") => res.from_reader_wire = Ok(expected)
                 /\ (ty.k = "u8" /\ wire = <<0, 0, 0, 255>> /\ Returned("from_bytes_wire")) =>
                        res.from_bytes_wire = Ok(255)
                 /\ (ty.k = "i8" /\ wire = <<0, 0, 0, 255>> /\ Returned("from_bytes_wire")) =>
                        res.from_bytes_wire = Ok(-1)
                 /\ (ty.k = "i16" /\ wire = <<0, 1, 128, 0>> /\ Returned("from_bytes_wire")) =>
                        res.from_bytes_wire = Ok(-32768)

\* Both decoders have returned the u8 0 for the word 00 00 01 00.
C19_Witness ==
    /\ pc = "done"
    /\ ty.k = "u8"
    /\ wire = <<0, 0, 1, 0>>
    /\ res.from_bytes_wire = Ok(0)
    /\ res.from_reader_wire = Ok(0)

\* C20: decoding a char reads one 4-byte unsigned word w and returns the
\* Unicode scalar w when w is in 0..0xD7FF or 0xE000..0x10FFFF, and fails with
\* InvalidString for a surrogate (0xD800..0xDFFF) and for every w above
\* 0x10FFFF.
C20_CharScalarRange ==
    (ty.k = "char" /\ Len(wire) >= 4) =>
        LET surrogate == wire[1] = 0 /\ wire[2] = 0 /\ wire[3] >= 216 /\ wire[3] <= 223
            above == wire[1] > 0 \/ wire[2] > 16
            expected == IF surrogate \/ above THEN Err(<<"InvalidString">>)
                        ELSE Ok(wire[2] * 65536 + wire[3] * 256 + wire[4])
        IN  /\ Returned("from_bytes_wire") => res.from_bytes_wire = expected
            /\ Returned("from_reader_wire") => res.from_reader_wire = expected
            /\ (wire = <<0, 0, 215, 255>> /\ Returned("from_bytes_wire")) =>
                   res.from_bytes_wire = Ok(55295)
            /\ (wire = <<0, 16, 255, 255>> /\ Returned("from_bytes_wire")) =>
                   res.from_bytes_wire = Ok(1114111)
            /\ (wire = <<0, 17, 0, 0>> /\ Returned("from_bytes_wire")) =>
                   res.from_bytes_wire = Err(<<"InvalidString">>)

\* Both decoders have failed with InvalidString on the surrogate 0xD800.
C20_Witness ==
    /\ pc = "done"
    /\ ty.k = "char"
    /\ wire = <<0, 0, 216, 0>>
    /\ res.from_bytes_wire = Err(<<"InvalidString">>)
    /\ res.from_reader_wire = Err(<<"InvalidString">>)

\* C21 (as amended): deserialize_any and deserialize_ignored_any fail
\* unconditionally on the slice decoder, the reader decoder and their
\* fixed-opaque delegates, whatever the input and the decoder's state, without
\* consuming any input; the error is Unsupported with the text
\* "deserialize_any (XDR is not self-describing)", respectively
\* "deserialize_ignored_any (XDR is not self-describing)".
C21_UnsupportedAny ==
    [][DeHead({"any", "ignored_any"}) =>
          /\ de' = de
          /\ stack' = <<>>
          /\ ret' = Err(<<"Unsupported",
                          IF stack[1].t.k = "any"
                          THEN "deserialize_any (XDR is not self-describing)"
                          ELSE "deserialize_ignored_any (XDR is not self-describing)">>)]_vars

\* Both decoders have refused a self-describing type of a caller that encoded
\* a tuple of three fields: from_bytes an IgnoredAny, from_reader a type that
\* calls deserialize_any before a byte was read.
C21_Witness ==
    /\ pc = "done"
    /\ ty.k = "tuple" /\ Len(ty.ts) = 3 /\ ty.ts[2].k = "u32"
    /\ res.from_bytes_as =
          Err(<<"Unsupported", "deserialize_ignored_any (XDR is not self-describing)">>)
    /\ res.from_reader_as =
          Err(<<"Unsupported", "deserialize_any (XDR is not self-describing)">>)
    /\ de.kind = "reader" /\ de.reader.off = 0

\* C21 as stated: the error of both operations is
\* Unsupported("not self-describing").
C21_NotSelfDescribing ==
    [][DeHead({"any", "ignored_any"}) =>
          /\ de' = de
          /\ ret' = Err(<<"Unsupported", "not self-describing">>)]_vars

\* C22: when the sink fails on a write during to_writer, the call returns
\* Io(msg) of that failure, nothing is written after the failing write, and
\* the bytes the sink accepted stay: what the sink holds after sink0 is at
\* every moment a prefix of to_bytes(val), at the return of a failed call the
\* bytes before the failing write and the bytes accepted of it.  The call fails
\* when the first write fails, and succeeds only with all of to_bytes(val)
\* written.
C22_SinkFailure ==
    ((pc = "to_writer" \/ Returned("to_writer")) /\ IsOk(res.to_bytes)) =>
        LET b == res.to_bytes[2]
            n == Len(ser.writer) - Len(sink0)
        IN  /\ n \in 0..Len(b)
            /\ ser.writer = sink0 \o SubSeq(b, 1, n)
            /\ Returned("to_writer") =>
                  \/ res.to_writer = Ok(Unit) /\ n = Len(b)
                  \/ /\ fault # None
                     /\ res.to_writer = Err(<<"Io", fault[1].msg>>)
                     /\ n < Len(b)
                     /\ n \in fault[1].at..(fault[1].at + fault[1].accept)
            /\ (Returned("to_writer") /\ fault # None /\ fault[1].at = 0 /\ b # <<>>) =>
                  IsErr(res.to_writer)

\* to_writer has failed with the sink's error on the write of the two bytes of
\* a string, of which the sink accepted one after the count.
C22_Witness ==
    /\ pc = "done"
    /\ ty.k = "string" /\ Len(val) = 2
    /\ sink0 = <<9>>
    /\ fault = Some([at |-> 4, accept |-> 1, msg |-> "broken pipe"])
    /\ res.to_writer = Err(<<"Io", "broken pipe">>)
    /\ ser.writer = <<9, 0, 0, 0, 2, val[1]>>

\* C23: from_reader reads from the reader only the bytes it needs.  Over a
\* reader that yields to_bytes(val) and then further bytes, it returns val
\* having read exactly Len(to_bytes(val)) bytes (the cursor at which
\* from_bytes_partial stops, C4), so that a second from_reader on the same
\* reader returns the value encoded next, having read exactly its bytes.
C23_ReaderConsumesExactly ==
    /\ Returned("from_reader_stream") =>
          /\ res.from_reader_stream = Ok(val)
          /\ de.reader.data = res.to_bytes[2] \o tail
          /\ pc = "streamed" => de.reader.off = Len(res.to_bytes[2])
    /\ Returned("from_reader_next") =>
          /\ res.from_reader_next = Ok(other[1].v)
          /\ de.reader.off = Len(res.to_bytes[2]) + Len(res.to_bytes_other[2])

\* The second from_reader has returned a FileHandle's fields from the reader
\* from which the first read a string with padding, and two bytes are unread.
C23_Witness ==
    /\ pc = "end_of_stream"
    /\ ty.k = "string" /\ Len(val) = 5
    /\ other[1].t.k = "tuple"
    /\ res.from_reader_stream = Ok(val)
    /\ res.from_reader_next = Ok(other[1].v)
    /\ de.reader.off = 12 + 16
    /\ Len(de.reader.data) = 12 + 16 + 2

\* C24: the cursor of the slice decoder.  In every state reached by decoder
\* operations, on encodings, on inputs cut short and on inputs with a foreign
\* first word, 0 <= pos <= Len(input); and no operation of a decode moves pos
\* back or changes the input: it leaves pos or advances it.
C24_CursorInvariant ==
    [][de'.kind = "slice" =>
          /\ de'.pos \in 0..Len(de'.input)
          /\ (de.kind = "slice" /\ pc' = pc) =>
                de'.input = de.input /\ de'.pos >= de.pos]_vars

\* from_bytes has failed on a string of 5 bytes cut to 7 bytes of input: the
\* count was taken, the data was not, and the cursor stays behind the count.
C24_Witness ==
    /\ pc = "decoded_wire"
    /\ ty.k = "string" /\ Len(val) = 5
    /\ de.kind = "slice" /\ Len(de.input) = 7
    /\ de.pos = 4
    /\ res.from_bytes_wire = Err(<<"UnexpectedEof">>)

\* C25: padding is read and not looked at.  When the caller puts other bytes
\* in place of padding bytes of to_bytes(val) (the 1-3 bytes after the data
\* of a string, a variable opaque or a fixed opaque whose length is not a
\* multiple of 4), from_bytes and from_reader return val as they do for the
\* zero padding; and no call of either decoder returns InvalidPadding.
C25_PaddingNotValidated ==
    /\ (IsOk(res.to_bytes) /\ Len(wire) = Len(res.to_bytes[2]) /\ wire # res.to_bytes[2]
          /\ \A i \in 1..Len(wire) : i \notin pads => wire[i] = res.to_bytes[2][i]) =>
            /\ Returned("from_bytes_wire") => res.from_bytes_wire = Ok(val)
            /\ Returned("from_reader_wire") => res.from_reader_wire = Ok(val)
    /\ ret # Err(<<"InvalidPadding">>)
    /\ \A entry \in DOMAIN res : res[entry] # Err(<<"InvalidPadding">>)

\* Both decoders have returned a string of two bytes from an input whose two
\* padding bytes are 0xFF.
C25_Witness ==
    /\ pc = "done"
    /\ ty.k = "string" /\ Len(val) = 2
    /\ wire = <<0, 0, 0, 2>> \o val \o <<255, 255>>
    /\ res.from_bytes_wire = Ok(val)
    /\ res.from_reader_wire = Ok(val)

\* C26: the slice decoder and the reader decoder behave alike on every input.
\* For to_bytes(val), for each of its proper prefixes, for each input made of
\* it by another first word (a bool or option discriminant that is neither 0
\* nor 1, a count larger than the data, an index of no variant, a word that is
\* no char) and for each made of it by other padding, from_reader over the
\* bytes returns what from_bytes of the bytes returns: the same value, or the
\* same error with the same payload.
C26_DecodersAgree ==
    /\ Returned("from_reader") => res.from_reader = res.from_bytes
    /\ Returned("from_reader_wire") => res.from_reader_wire = res.from_bytes_wire

\* Both decoders have failed alike, on the end of the input, on a map of two
\* entries whose count the caller set to 3.
C26_Witness ==
    /\ pc = "done"
    /\ ty.k = "map" /\ Cardinality(DOMAIN val) = 2
    /\ Len(wire) = Len(res.to_bytes[2]) /\ SubSeq(wire, 1, 4) = <<0, 0, 0, 3>>
    /\ res.from_bytes_wire = Err(<<"UnexpectedEof">>)
    /\ res.from_reader_wire = Err(<<"UnexpectedEof">>)

\* C27: write_opaque_variable fails with LengthOverflow for a slice of more
\* than 2^32 - 1 bytes, before anything is written: the sink holds neither a
\* count nor a data byte of the slice (what was written before it stays); for
\* a shorter slice the count written is the length of the slice.
C27_OpaqueLengthOverflow ==
    /\ (pc = "encoded_other" /\ other[1].t.k \in {"string", "byte_buf"}) =>
          IF other[1].v # <<>> /\ other[1].v[1] = -1
          THEN /\ res.to_bytes_other = Err(<<"LengthOverflow", U32_MAX, U32_MAX>>)
               /\ ser.writer = <<>>
          ELSE /\ IsOk(res.to_bytes_other)
               /\ SubSeq(res.to_bytes_other[2], 1, 4) = BE32(Len(other[1].v))
    /\ (pc = "encoded_other" /\ other[1].t.k = "tuple" /\ Len(other[1].v) = 2) =>
          /\ res.to_bytes_other = Err(<<"LengthOverflow", U32_MAX, U32_MAX>>)
          /\ ser.writer = BE32Word(other[1].v[1])
    /\ (pc = "encoded" /\ ty.k \in {"string", "byte_buf"}) =>
          /\ IsOk(res.to_bytes)
          /\ SubSeq(res.to_bytes[2], 1, 4) = BE32(Len(val))

\* to_bytes of a string of 2^32 + 5 bytes has failed with LengthOverflow, and
\* nothing was written.
C27_Witness ==
    /\ pc = "encoded_other"
    /\ other[1].t.k = "string" /\ other[1].v = <<-1, 0, 1, 0, 5, 97>>
    /\ res.to_bytes_other = Err(<<"LengthOverflow", U32_MAX, U32_MAX>>)
    /\ ser.writer = <<>>

\* C28: alignment of the slice decoder.  From pos = 0, after every decode
\* operation that has not failed (each deserialize_* call and accessor step,
\* the fixed-opaque path among them, on encodings and on the caller's other
\* inputs) pos is a multiple of 4; so the remainder that from_bytes_partial
\* returns begins at a multiple of 4 of its input.
C28_Alignment ==
    /\ (de.kind = "slice" /\ ~IsErr(ret)) => de.pos % 4 = 0
    /\ (Returned("from_bytes_partial") /\ IsOk(res.from_bytes_partial)) =>
          /\ (Len(de.input) - Len(res.from_bytes_partial[2][2])) % 4 = 0
          /\ res.from_bytes_partial[2][2] =
                SubSeq(de.input, Len(de.input) - Len(res.from_bytes_partial[2][2]) + 1,
                       Len(de.input))

\* from_bytes_partial has returned a fixed opaque of 3 bytes and a remainder
\* of 4 + 2 bytes that begins at offset 4 of the 10 bytes of input.
C28_Witness ==
    /\ pc = "done"
    /\ ty.k = "fixed_opaque" /\ ty.n = 3
    /\ IsOk(res.from_bytes_partial)
    /\ de.kind = "slice" /\ Len(de.input) = 10 /\ de.pos = 4
    /\ Len(res.from_bytes_partial[2][2]) = 6

\* What a frame of the deserializers' stack may still do, as four naturals
\* compared from the left: a call not yet made is above the accessors and
\* visitors it becomes; a visitor holding the count of elements left is the
\* lower the smaller the count, and within one count the lower the further the
\* element it asked for has come (asked for and under way, key back and value
\* asked for, back with nothing under way).
FrameRank(fr, top) ==
    IF fr.f = "deserialize" THEN <<3, 0, 0, 0>>
    ELSE IF fr.f = "enum_access" THEN <<2, 0, 0, 0>>
    ELSE IF fr.f = "variant_access" THEN <<1, 0, 0, 0>>
    ELSE IF fr.f = "visit_seq"
         THEN IF fr.access.a = "raw"
              THEN <<0, 0, Len(fr.access.data) - fr.access.pos, 0>>
              ELSE <<0, fr.access.remaining[1], fr.access.remaining[2],
                     IF top THEN 0 ELSE 1>>
    ELSE IF fr.f = "visit_map"
         THEN <<0, fr.access.remaining[1], fr.access.remaining[2],
                IF fr.key = None THEN (IF top THEN 0 ELSE 3)
                ELSE (IF top THEN 2 ELSE 1)>>
    ELSE <<0, 0, 0, 0>>
RankLess(a, b) ==
    \E k \in 1..4 : a[k] < b[k] /\ \A i \in 1..(k - 1) : a[i] = b[i]
\* The rank of the i-th frame of stk counted from the caller's.
RankAt(stk, i) == FrameRank(stk[Len(stk) - i + 1], i = Len(stk))
\* s2 is below s1: from the caller's frame upwards the first frame that
\* differs is lower in s2 or missing from it.  No chain of stacks descends for
\* ever: the ranks are tuples of naturals and the stack is never deeper than
\* the type being decoded.
StackLess(s2, s1) ==
    \E j \in 1..Len(s1) :
        /\ \A i \in 1..(j - 1) : i <= Len(s2) /\ RankAt(s2, i) = RankAt(s1, i)
        /\ j > Len(s2) \/ RankLess(RankAt(s2, j), RankAt(s1, j))

\* C29: every decode call ends, with a value or with an error, on every
\* input.  Every step of a decode takes the stack of pending calls and
\* visitors lower in an order without endless descent; a step of a sequence or
\* of a map that yields an element takes one from the finite count of elements
\* left, so also when the elements occupy no bytes (a Vec<()>); and when the
\* count in front of elements that occupy bytes is larger than what follows
\* (up to 2^32 - 1), the decode fails with UnexpectedEof.
C29_DecodeTerminates ==
    /\ [][/\ (stack # <<>>) => StackLess(stack', stack)
          /\ (DeTop("visit_seq") /\ stack[1].access.a = "seq"
              /\ stack[1].access.remaining # USize(0)) =>
                /\ Len(stack') = Len(stack) + 1
                /\ stack'[2].access.remaining = usize_dec(stack[1].access.remaining)
          /\ (DeTop("visit_map") /\ stack[1].key = None
              /\ stack[1].access.remaining # USize(0)) =>
                /\ Len(stack') = Len(stack) + 1
                /\ stack'[2].access.remaining = usize_dec(stack[1].access.remaining)]_vars
    /\ [](/\ ty.k \in {"seq", "map"}
          /\ Len(wire) >= 4 /\ Len(wire) = Len(res.to_bytes[2])
          /\ (ty.k = "seq" => ty.t.k # "unit")
          /\ \/ WireCount(wire)[1] > 0
             \/ WireCount(wire)[2] > (IF ty.k = "seq" THEN Len(val)
                                      ELSE Cardinality(DOMAIN val))
          => /\ Returned("from_bytes_wire") =>
                   res.from_bytes_wire = Err(<<"UnexpectedEof">>)
             /\ Returned("from_reader_wire") =>
                   res.from_reader_wire = Err(<<"UnexpectedEof">>))

\* from_bytes has returned the three elements of a Vec<()> from the four bytes
\* of the count 3.
C29_Witness ==
    /\ pc = "decoded_wire"
    /\ ty.k = "seq" /\ ty.t.k = "unit"
    /\ wire = <<0, 0, 0, 3>>
    /\ res.from_bytes_wire = Ok(<<Unit, Unit, Unit>>)

\* C30: from_bytes does not ask that its input be read to the end.  When
\* from_bytes(b) has returned Ok(v), from_bytes of b followed by other bytes
\* returns Ok(v) too, having read as far as the end of b and no further: the
\* bytes after it are no error.
C30_TrailingBytesIgnored ==
    /\ (Returned("from_bytes_trailing") /\ IsOk(res.from_bytes)) =>
          /\ res.from_bytes_trailing = res.from_bytes
          /\ de.input = res.to_bytes[2] \o tail
          /\ de.pos <= Len(res.to_bytes[2])
    /\ (Returned("from_bytes_wire_trailing") /\ IsOk(res.from_bytes_wire)) =>
          /\ res.from_bytes_wire_trailing = res.from_bytes_wire
          /\ de.input = wire \o tail
          /\ de.pos <= Len(wire)

\* from_bytes has returned 42 from the four bytes of a u32 followed by the
\* four bytes 0, 0, 0, 1, which it has not read.
C30_Witness ==
    /\ Returned("from_bytes_trailing")
    /\ ty.k = "u32" /\ val = U32(42)
    /\ tail = <<0, 0, 0, 1>>
    /\ de.input = <<0, 0, 0, 42, 0, 0, 0, 1>> /\ de.pos = 4
    /\ res.from_bytes_trailing = Ok(U32(42))

====
